---------------------------- MODULE Spec2Model ----------------------------
(***************************************************************************)
(* Header-conformance engine of the experiment-output audit scripts        *)
(* debug/check_headers.py (exact match) and debug/check_headers_order.py   *)
(* (order check).                                                          *)
(*                                                                         *)
(* A Python str is modelled as a sequence of one-character strings, so     *)
(* that lower(), strip() and the regular expressions are computed          *)
(* character by character. Python's None is the value None below.          *)
(***************************************************************************)
EXTENDS Integers, Sequences, FiniteSets, TLC

VARIABLES
    header,         \* normalize harness: the value handed to normalize_header
    base,           \* normalize harness: 0-based schema index the value was derived from, -1 if none
    edits,          \* normalize harness: number of perturbations applied to the value
    norm1,          \* normalize harness: normalize_header(header)
    norm2,          \* normalize harness: normalize_header(norm1)
    found,          \* normalize harness: find_header_in_expected(header)
    npc,            \* normalize harness: "input", "once" (normalized) or "twice"
    given,          \* compare harness: the reader result handed to the comparisons, its cells by number
    row_edits,      \* compare harness: number of edits that made the row out of the schema row
    exact_result,   \* compare harness: what compare_headers returned
    order_result,   \* compare harness: what compare_headers_order returned
    cpc,            \* compare harness: "input", "exact" (compare_headers ran) or "order" (both ran)
    script,         \* which script runs: "check_headers" or "check_headers_order"
    tree,           \* the files under the two scanned directories, by their number in the catalog
    dir_exists,     \* for each of the two scanned directories, whether it exists
    mpc,            \* where main stands: "start", "multi", "between", "single", "summary", "done"
    walked,         \* scan_directory: the files the walk has visited, in order
    file_counts,    \* scan_directory: algorithm -> number of monitored files
    violations,     \* scan_directory: the violation records
    skipped_files,  \* scan_directory: the paths of the .xlsx files with a non-conforming name
    loads,          \* for each file, how often load_workbook was called on it
    open_workbooks, \* the files whose workbook is open
    all_results,    \* main: the results of the scans so far
    total_files,    \* main
    total_violations, \* main
    status,         \* main: the exit status, -1 while main runs
    printed,        \* main: the lines printed so far
    report_file,    \* main: the lines of the report file, none before it is written
    built_name,     \* name harness: the file name handed to the file-name functions
    name_parts,     \* name harness: how many parts of the name are written
    name_dir,       \* name harness: the directory the file lies in
    name_regime,    \* name harness: "multi", "single", or "none" before the functions ran
    name_valid,     \* name harness: is_valid_filename(built_name)
    name_algorithm, \* name harness: extract_algorithm_name of the path
    sheet_row,      \* reader harness: the cell values of the first row of the sheet
    appended,       \* reader harness: how many cells were appended to the row
    read_result,    \* reader harness: what get_header_from_xlsx returned
    rpc             \* reader harness: "row" while the row is written, then "read"

normVars == <<header, base, edits, norm1, norm2, found, npc>>
cmpVars == <<given, row_edits, exact_result, order_result, cpc>>
scanVars == <<script, tree, dir_exists, mpc, walked, file_counts, violations, skipped_files,
              loads, open_workbooks, all_results, total_files, total_violations, status,
              printed, report_file>>

nameVars == <<built_name, name_parts, name_dir, name_regime, name_valid, name_algorithm>>
readVars == <<sheet_row, appended, read_result, rpc>>

vars == <<normVars, cmpVars, scanVars, nameVars, readVars>>

-----------------------------------------------------------------------------
(* Bounds of the model *)

\* longest free-form string handed to normalize_header
MaxStrLen == 4
\* number of perturbations applied to a schema header
MaxEdits == 2
\* number of edits (swap, replace, drop, append) applied to the schema to get a header row
MaxHeaderEdits == 2
\* number of files under the two scanned directories
MaxFiles == 3

-----------------------------------------------------------------------------
(* Text *)

\* Python's None; a one-element sequence no str can equal (a str is a
\* sequence of one-character strings)
None == <<"<None>">>
\* a result that has not been computed yet
Pending == <<"<pending>">>

UPPER == <<"A", "B", "C", "D", "E", "F", "G", "H", "I", "J", "K", "L", "M",
           "N", "O", "P", "Q", "R", "S", "T", "U", "V", "W", "X", "Y", "Z">>
LOWER == <<"a", "b", "c", "d", "e", "f", "g", "h", "i", "j", "k", "l", "m",
           "n", "o", "p", "q", "r", "s", "t", "u", "v", "w", "x", "y", "z">>

Range(s) == {s[i] : i \in DOMAIN s}

\* F(x), with x evaluated once and then bound (TLC would otherwise evaluate
\* the expression x again at every use inside F)
Once(F(_), x) == CHOOSE r \in {F(v) : v \in {x}} : TRUE

UpperSet == Range(UPPER)
LowerSet == Range(LOWER)

\* the characters Python's \s and str.strip() treat as whitespace (the two the
\* model draws from)
Whitespace == {" ", "\t"}

IsSpace(c) == c \in Whitespace

\* str.lower() on one character
LowerChar(c) == IF c \in UpperSet THEN LOWER[CHOOSE i \in DOMAIN UPPER : UPPER[i] = c] ELSE c
\* str.upper() on one character
UpperChar(c) == IF c \in LowerSet THEN UPPER[CHOOSE i \in DOMAIN LOWER : LOWER[i] = c] ELSE c

\* str.lower()
Lower(s) == [i \in DOMAIN s |-> LowerChar(s[i])]

\* str.strip(): drop the leading and the trailing whitespace
RECURSIVE LStrip(_)
LStrip(s) == IF s # <<>> /\ IsSpace(Head(s)) THEN LStrip(Tail(s)) ELSE s

RECURSIVE RStrip(_)
RStrip(s) == IF s # <<>> /\ IsSpace(s[Len(s)]) THEN RStrip(SubSeq(s, 1, Len(s) - 1)) ELSE s

Strip(s) == RStrip(LStrip(s))

\* length of the whitespace run that starts at position i of s (0 if none)
RECURSIVE RunLen(_, _)
RunLen(s, i) == IF i <= Len(s) /\ IsSpace(s[i]) THEN 1 + RunLen(s, i + 1) ELSE 0

\* re.sub(r'\s+', ' ', h): every maximal whitespace run becomes one space
RECURSIVE CollapseFrom(_, _)
CollapseFrom(s, i) ==
    IF i > Len(s) THEN <<>>
    ELSE IF IsSpace(s[i]) THEN <<" ">> \o CollapseFrom(s, i + RunLen(s, i))
    ELSE <<s[i]>> \o CollapseFrom(s, i + 1)

CollapseSpaces(s) == CollapseFrom(s, 1)

\* re.sub(r'\s+%', '%', h): a whitespace run directly followed by '%' is removed
RECURSIVE SpaceBeforePctFrom(_, _)
SpaceBeforePctFrom(s, i) ==
    IF i > Len(s) THEN <<>>
    ELSE IF IsSpace(s[i])
         THEN LET n == RunLen(s, i) IN
              IF i + n <= Len(s) /\ s[i + n] = "%"
              THEN <<"%">> \o SpaceBeforePctFrom(s, i + n + 1)
              ELSE SubSeq(s, i, i + n - 1) \o SpaceBeforePctFrom(s, i + n)
         ELSE <<s[i]>> \o SpaceBeforePctFrom(s, i + 1)

RemoveSpaceBeforePct(s) == SpaceBeforePctFrom(s, 1)

\* re.sub(r'%\s+', '%', h): a whitespace run directly after '%' is removed
RECURSIVE SpaceAfterPctFrom(_, _)
SpaceAfterPctFrom(s, i) ==
    IF i > Len(s) THEN <<>>
    ELSE IF s[i] = "%" /\ RunLen(s, i + 1) > 0
         THEN <<"%">> \o SpaceAfterPctFrom(s, i + 1 + RunLen(s, i + 1))
         ELSE <<s[i]>> \o SpaceAfterPctFrom(s, i + 1)

RemoveSpaceAfterPct(s) == SpaceAfterPctFrom(s, 1)

-----------------------------------------------------------------------------
(* The schema and normalization (check_headers_order.py) *)

\* a schema whose 7th name is the 6th with the space before '%' left out
EXPECTED_HEADERS_repeated == <<
    <<"M", "a", "k", "e", "s", "p", "a", "n">>,
    <<"A", "v", "g", " ", "W", "a", "i", "t", "i", "n", "g", " ", "T", "i", "m", "e">>,
    <<"A", "v", "g", " ", "E", "x", "e", "c", "u", "t", "i", "o", "n", " ", "T", "i", "m", "e">>,
    <<"A", "v", "g", " ", "F", "i", "n", "i", "s", "h", " ", "T", "i", "m", "e">>,
    <<"E", "n", "e", "r", "g", "y", " ", "U", "s", "e", " ", "W", "h">>,
    <<"A", "v", "g", " ", "V", "M", " ", "U", "t", "i", "l", "i", "z", "a", "t", "i", "o", "n", " ", "%">>,
    <<"A", "v", "g", " ", "V", "M", " ", "U", "t", "i", "l", "i", "z", "a", "t", "i", "o", "n", "%">>,
    <<"A", "v", "g", " ", "H", "o", "s", "t", " ", "I", "D", "L", "E", " ", "T", "i", "m", "e", " ", "(", "s", ")">> >>

EXPECTED_HEADERS == <<
    <<"M", "a", "k", "e", "s", "p", "a", "n">>,
    <<"A", "v", "g", " ", "W", "a", "i", "t", "i", "n", "g", " ", "T", "i", "m", "e">>,
    <<"A", "v", "g", " ", "E", "x", "e", "c", "u", "t", "i", "o", "n", " ", "T", "i", "m", "e">>,
    <<"A", "v", "g", " ", "F", "i", "n", "i", "s", "h", " ", "T", "i", "m", "e">>,
    <<"E", "n", "e", "r", "g", "y", " ", "U", "s", "e", " ", "W", "h">>,
    <<"A", "v", "g", " ", "V", "M", " ", "U", "t", "i", "l", "i", "z", "a", "t", "i", "o", "n", " ", "%">>,
    <<"A", "v", "g", " ", "H", "o", "s", "t", " ", "U", "t", "i", "l", "i", "z", "a", "t", "i", "o", "n", "%">>,
    <<"A", "v", "g", " ", "H", "o", "s", "t", " ", "I", "D", "L", "E", " ", "T", "i", "m", "e", " ", "(", "s", ")">> >>

\* a mutant of normalize_header: the space before '%' is removed as a literal
\* ' %' before the whitespace runs are collapsed
normalize_header_literal_space(h) ==
    IF h = None THEN <<>>
    ELSE LET s  == Strip(Lower(h))
             RECURSIVE Lit(_)
             Lit(i) == IF i > Len(s) THEN <<>>
                       ELSE IF s[i] = " " /\ i < Len(s) /\ s[i + 1] = "%"
                            THEN <<"%">> \o Lit(i + 2)
                            ELSE <<s[i]>> \o Lit(i + 1)
         IN  RemoveSpaceAfterPct(CollapseSpaces(Lit(1)))

\* a mutant of normalize_header: the case is kept
normalize_header_keep_case(h) ==
    IF h = None THEN <<>>
    ELSE RemoveSpaceAfterPct(RemoveSpaceBeforePct(CollapseSpaces(Strip(h))))

normalize_header(h) ==
    IF h = None THEN <<>>
    ELSE RemoveSpaceAfterPct(RemoveSpaceBeforePct(CollapseSpaces(Strip(Lower(h)))))

NORMALIZED_EXPECTED == [i \in DOMAIN EXPECTED_HEADERS |-> normalize_header(EXPECTED_HEADERS[i])]

\* NORM_TO_EXPECTED = {normalize_header(h): h for h in EXPECTED_HEADERS}: a
\* later schema entry with the same key replaces an earlier one
NORM_TO_EXPECTED ==
    [key \in {NORMALIZED_EXPECTED[i] : i \in DOMAIN NORMALIZED_EXPECTED} |->
        EXPECTED_HEADERS[CHOOSE i \in DOMAIN NORMALIZED_EXPECTED :
                            /\ NORMALIZED_EXPECTED[i] = key
                            /\ \A j \in DOMAIN NORMALIZED_EXPECTED :
                                  NORMALIZED_EXPECTED[j] = key => j <= i]]

\* a mutant of find_header_in_expected: the index is counted from 1
find_header_in_expected_one_based(actual_header) ==
    LET norm_actual == normalize_header(actual_header)
        hits == {i \in DOMAIN NORMALIZED_EXPECTED : NORMALIZED_EXPECTED[i] = norm_actual}
    IN  IF hits = {} THEN -1
        ELSE CHOOSE i \in hits : \A j \in hits : i <= j

\* index in EXPECTED_HEADERS (0-based, as in the source) of the first schema
\* entry whose normalized form equals the cell's, -1 if none
find_header_in_expected(actual_header) ==
    LET norm_actual == normalize_header(actual_header)
        hits == {i \in DOMAIN NORMALIZED_EXPECTED : NORMALIZED_EXPECTED[i] = norm_actual}
    IN  IF hits = {} THEN -1
        ELSE (CHOOSE i \in hits : \A j \in hits : i <= j) - 1

-----------------------------------------------------------------------------
(* What get_header_from_xlsx hands to the comparison *)

\* a Python list of header cells
ListOf(cells) == [tag |-> "list", cells |-> cells]
\* the tuple (None, str(e)) returned from the except branch
TupleOf(message) == [tag |-> "tuple", items |-> <<None, message>>]
\* a bare None
NoneValue == [tag |-> "None"]

\* the value None where a difference description or the details are expected
NoDifference == [kind |-> "None"]
NoDetails == [type |-> "None"]
\* a comparison that has not run yet
PendingResult == [is_match |-> FALSE, difference |-> [kind |-> "pending"]]

-----------------------------------------------------------------------------
(* compare_headers (check_headers.py): exact match *)

\* the list `mismatches`: one entry f"Col {i+1}: expected '{expected}', got
\* '{actual}'" per differing position, in the order of the loop
Mismatches(actual, expected) ==
    LET RECURSIVE Loop(_)
        Loop(p) ==
            IF p > Len(actual) \/ p > Len(expected) THEN <<>>
            ELSE (IF actual[p] # expected[p]
                  THEN <<[col |-> p, expected |-> expected[p], got |-> actual[p]]>>
                  ELSE <<>>) \o Loop(p + 1)
    IN  Loop(1)

\* a mutant of compare_headers: the cells are compared in normalized form
compare_headers_normalized(actual_headers, expected_headers) ==
    IF actual_headers.tag = "tuple"
    THEN [is_match |-> FALSE,
          difference |-> [kind |-> "Read error", message |-> actual_headers.items[2]]]
    ELSE IF actual_headers.tag = "None"
    THEN [is_match |-> FALSE, difference |-> [kind |-> "Could not read headers"]]
    ELSE IF Len(actual_headers.cells) # Len(expected_headers)
    THEN [is_match |-> FALSE,
          difference |-> [kind |-> "Column count mismatch",
                          expected |-> Len(expected_headers),
                          got |-> Len(actual_headers.cells)]]
    ELSE LET norm(cells) == [p \in DOMAIN cells |-> normalize_header(cells[p])]
             mismatches == Mismatches(norm(actual_headers.cells), norm(expected_headers))
         IN  IF mismatches # <<>>
             THEN [is_match |-> FALSE,
                   difference |-> [kind |-> "mismatches", items |-> mismatches]]
             ELSE [is_match |-> TRUE, difference |-> NoDifference]

\* a mutant of compare_headers: the column count is checked before the
\* read failure, whose tuple has 2 items
compare_headers_count_first(actual_headers, expected_headers) ==
    IF actual_headers.tag = "tuple" /\ Len(actual_headers.items) # Len(expected_headers)
    THEN [is_match |-> FALSE,
          difference |-> [kind |-> "Column count mismatch",
                          expected |-> Len(expected_headers),
                          got |-> Len(actual_headers.items)]]
    ELSE IF actual_headers.tag = "None"
    THEN [is_match |-> FALSE, difference |-> [kind |-> "Could not read headers"]]
    ELSE IF Len(actual_headers.cells) # Len(expected_headers)
    THEN [is_match |-> FALSE,
          difference |-> [kind |-> "Column count mismatch",
                          expected |-> Len(expected_headers),
                          got |-> Len(actual_headers.cells)]]
    ELSE LET mismatches == Mismatches(actual_headers.cells, expected_headers)
         IN  IF mismatches # <<>>
             THEN [is_match |-> FALSE,
                   difference |-> [kind |-> "mismatches", items |-> mismatches]]
             ELSE [is_match |-> TRUE, difference |-> NoDifference]

compare_headers(actual_headers, expected_headers) ==
    IF actual_headers.tag = "tuple"
    THEN [is_match |-> FALSE,
          difference |-> [kind |-> "Read error", message |-> actual_headers.items[2]]]
    ELSE IF actual_headers.tag = "None"
    THEN [is_match |-> FALSE, difference |-> [kind |-> "Could not read headers"]]
    ELSE IF Len(actual_headers.cells) # Len(expected_headers)
    THEN [is_match |-> FALSE,
          difference |-> [kind |-> "Column count mismatch",
                          expected |-> Len(expected_headers),
                          got |-> Len(actual_headers.cells)]]
    ELSE LET mismatches == Mismatches(actual_headers.cells, expected_headers)
         IN  IF mismatches # <<>>
             THEN [is_match |-> FALSE,
                   difference |-> [kind |-> "mismatches", items |-> mismatches]]
             ELSE [is_match |-> TRUE, difference |-> NoDifference]

-----------------------------------------------------------------------------
(* compare_headers_order (check_headers_order.py): order check *)

\* the list `actual_positions`: for each cell, its 0-based schema index or -1
ActualPositions(cells) == [p \in DOMAIN cells |-> find_header_in_expected(cells[p])]

\* the list `unrecognized`: (i, actual) for every cell with no schema index
\* (expected_idx == -1), i the 0-based position
Unrecognized(cells, actual_positions) ==
    LET RECURSIVE Loop(_)
        Loop(p) ==
            IF p > Len(cells) THEN <<>>
            ELSE (IF actual_positions[p] = -1
                  THEN << <<p - 1, cells[p]>> >>
                  ELSE <<>>) \o Loop(p + 1)
    IN  Loop(1)

\* a mutant of OrderIssues: the 1-based column number is compared with the
\* 0-based schema index
OrderIssues_one_based(cells, expected_headers, actual_positions) ==
    LET RECURSIVE Loop(_)
        Loop(p) ==
            IF p > Len(actual_positions) THEN <<>>
            ELSE (IF p # actual_positions[p]
                  THEN <<[position |-> (p - 1) + 1,
                          found |-> cells[p],
                          expected |-> expected_headers[p],
                          found_should_be_at |-> actual_positions[p] + 1]>>
                  ELSE <<>>) \o Loop(p + 1)
    IN  Loop(1)

\* a mutant of OrderIssues: a position is left out when an earlier position
\* holds a cell with the same schema index
OrderIssues_first_per_target(cells, expected_headers, actual_positions) ==
    LET RECURSIVE Loop(_)
        Loop(p) ==
            IF p > Len(actual_positions) THEN <<>>
            ELSE (IF p - 1 # actual_positions[p]
                     /\ \A q \in 1..(p - 1) : actual_positions[q] # actual_positions[p]
                  THEN <<[position |-> (p - 1) + 1,
                          found |-> cells[p],
                          expected |-> expected_headers[p],
                          found_should_be_at |-> actual_positions[p] + 1]>>
                  ELSE <<>>) \o Loop(p + 1)
    IN  Loop(1)

\* a mutant of OrderIssues: found_should_be_at is the 0-based schema index
OrderIssues_zero_based_target(cells, expected_headers, actual_positions) ==
    LET RECURSIVE Loop(_)
        Loop(p) ==
            IF p > Len(actual_positions) THEN <<>>
            ELSE (IF p - 1 # actual_positions[p]
                  THEN <<[position |-> (p - 1) + 1,
                          found |-> cells[p],
                          expected |-> expected_headers[p],
                          found_should_be_at |-> actual_positions[p]]>>
                  ELSE <<>>) \o Loop(p + 1)
    IN  Loop(1)

\* a mutant of OrderIssues: the cell found is reported in normalized form
OrderIssues_normalized_found(cells, expected_headers, actual_positions) ==
    LET RECURSIVE Loop(_)
        Loop(p) ==
            IF p > Len(actual_positions) THEN <<>>
            ELSE (IF p - 1 # actual_positions[p]
                  THEN <<[position |-> (p - 1) + 1,
                          found |-> normalize_header(cells[p]),
                          expected |-> expected_headers[p],
                          found_should_be_at |-> actual_positions[p] + 1]>>
                  ELSE <<>>) \o Loop(p + 1)
    IN  Loop(1)

\* the list `order_issues`: one entry per position whose 0-based index
\* differs from the schema index of the cell found there
OrderIssues(cells, expected_headers, actual_positions) ==
    LET RECURSIVE Loop(_)
        Loop(p) ==
            IF p > Len(actual_positions) THEN <<>>
            ELSE (IF p - 1 # actual_positions[p]
                  THEN <<[position |-> (p - 1) + 1,
                          found |-> cells[p],
                          expected |-> expected_headers[p],
                          found_should_be_at |-> actual_positions[p] + 1]>>
                  ELSE <<>>) \o Loop(p + 1)
    IN  Loop(1)

\* the issue strings of the description, "Col {i+1}: '{h}' not recognized"
UnrecognizedIssues(unrecognized) ==
    [k \in DOMAIN unrecognized |-> [col |-> unrecognized[k][1] + 1, header |-> unrecognized[k][2]]]

\* a mutant of OrderVerdict: a schema entry no cell maps to is reported as an
\* unrecognized column at its position
OrderVerdict_missing_entries(cells, expected_headers) ==
    LET Verdict(actual_positions) ==
            LET missing ==
                    LET RECURSIVE Loop(_)
                        Loop(p) ==
                            IF p > Len(expected_headers) THEN <<>>
                            ELSE (IF \A q \in DOMAIN actual_positions :
                                        actual_positions[q] # p - 1
                                  THEN << <<p - 1, expected_headers[p]>> >>
                                  ELSE <<>>) \o Loop(p + 1)
                    IN  Loop(1)
                unrecognized == Unrecognized(cells, actual_positions) \o missing
                order_issues == OrderIssues(cells, expected_headers, actual_positions)
            IN  IF unrecognized # <<>>
                THEN [is_match |-> FALSE,
                      difference |-> [kind |-> "Unrecognized headers",
                                      items |-> UnrecognizedIssues(unrecognized)],
                      details |-> [type |-> "unrecognized", details |-> unrecognized]]
                ELSE IF order_issues # <<>>
                THEN [is_match |-> FALSE,
                      difference |-> [kind |-> "Order violations", items |-> order_issues],
                      details |-> [type |-> "order", details |-> order_issues]]
                ELSE [is_match |-> TRUE, difference |-> NoDifference, details |-> NoDetails]
    IN  Once(Verdict, ActualPositions(cells))

\* a mutant of OrderVerdict: the order issues are reported before the
\* unrecognized cells
OrderVerdict_order_first(cells, expected_headers) ==
    LET Verdict(actual_positions) ==
            LET unrecognized == Unrecognized(cells, actual_positions)
                order_issues == OrderIssues(cells, expected_headers, actual_positions)
            IN  IF order_issues # <<>>
                THEN [is_match |-> FALSE,
                      difference |-> [kind |-> "Order violations", items |-> order_issues],
                      details |-> [type |-> "order", details |-> order_issues]]
                ELSE IF unrecognized # <<>>
                THEN [is_match |-> FALSE,
                      difference |-> [kind |-> "Unrecognized headers",
                                      items |-> UnrecognizedIssues(unrecognized)],
                      details |-> [type |-> "unrecognized", details |-> unrecognized]]
                ELSE [is_match |-> TRUE, difference |-> NoDifference, details |-> NoDetails]
    IN  Once(Verdict, ActualPositions(cells))

\* what compare_headers_order does once the column count is right: the
\* mapping loop, then the unrecognized cells, then the order issues
OrderVerdict(cells, expected_headers) ==
    LET Verdict(actual_positions) ==
            LET unrecognized == Unrecognized(cells, actual_positions)
                order_issues == OrderIssues(cells, expected_headers, actual_positions)
            IN  IF unrecognized # <<>>
                THEN [is_match |-> FALSE,
                      difference |-> [kind |-> "Unrecognized headers",
                                      items |-> UnrecognizedIssues(unrecognized)],
                      details |-> [type |-> "unrecognized", details |-> unrecognized]]
                ELSE IF order_issues # <<>>
                THEN [is_match |-> FALSE,
                      difference |-> [kind |-> "Order violations", items |-> order_issues],
                      details |-> [type |-> "order", details |-> order_issues]]
                ELSE [is_match |-> TRUE, difference |-> NoDifference, details |-> NoDetails]
    IN  Once(Verdict, ActualPositions(cells))

\* a mutant of compare_headers_order: the column count is checked after the
\* unrecognized cells
compare_headers_order_count_late(actual_headers, expected_headers) ==
    IF actual_headers.tag = "tuple"
    THEN [is_match |-> FALSE,
          difference |-> [kind |-> "Read error", message |-> actual_headers.items[2]],
          details |-> NoDetails]
    ELSE IF actual_headers.tag = "None"
    THEN [is_match |-> FALSE,
          difference |-> [kind |-> "Could not read headers"],
          details |-> NoDetails]
    ELSE IF \E p \in DOMAIN actual_headers.cells :
                find_header_in_expected(actual_headers.cells[p]) = -1
    THEN OrderVerdict(actual_headers.cells, expected_headers)
    ELSE IF Len(actual_headers.cells) # Len(expected_headers)
    THEN [is_match |-> FALSE,
          difference |-> [kind |-> "Column count mismatch",
                          expected |-> Len(expected_headers),
                          got |-> Len(actual_headers.cells)],
          details |-> NoDetails]
    ELSE OrderVerdict(actual_headers.cells, expected_headers)

compare_headers_order(actual_headers, expected_headers) ==
    IF actual_headers.tag = "tuple"
    THEN [is_match |-> FALSE,
          difference |-> [kind |-> "Read error", message |-> actual_headers.items[2]],
          details |-> NoDetails]
    ELSE IF actual_headers.tag = "None"
    THEN [is_match |-> FALSE,
          difference |-> [kind |-> "Could not read headers"],
          details |-> NoDetails]
    ELSE IF Len(actual_headers.cells) # Len(expected_headers)
    THEN [is_match |-> FALSE,
          difference |-> [kind |-> "Column count mismatch",
                          expected |-> Len(expected_headers),
                          got |-> Len(actual_headers.cells)],
          details |-> NoDetails]
    ELSE OrderVerdict(actual_headers.cells, expected_headers)

-----------------------------------------------------------------------------
(* normalize_header and find_header_in_expected applied to bounded inputs *)

\* the characters free-form inputs are drawn from: whitespace, '%', a lower-
\* and an upper-case letter
NormAlphabet == {" ", "\t", "%", "a", "A"}

RECURSIVE StringsUpTo(_)
StringsUpTo(n) ==
    IF n = 0 THEN {<<>>}
    ELSE LET shorter == StringsUpTo(n - 1) IN
         shorter \cup {Append(s, c) : s \in {t \in shorter : Len(t) = n - 1}, c \in NormAlphabet}

NormInputs == {None} \cup StringsUpTo(MaxStrLen)

InsertAt(s, i, c) == SubSeq(s, 1, i - 1) \o <<c>> \o SubSeq(s, i, Len(s))
RemoveAt(s, i) == SubSeq(s, 1, i - 1) \o SubSeq(s, i + 1, Len(s))

NormIdle ==
    /\ header = None
    /\ base = -1
    /\ edits = 0
    /\ norm1 = Pending
    /\ norm2 = Pending
    /\ found = -1
    /\ npc = "idle"

CmpIdle ==
    /\ given = [tag |-> "None"]
    /\ row_edits = 0
    /\ exact_result = PendingResult
    /\ order_result = PendingResult
    /\ cpc = "idle"

\* no script runs
ScanIdle ==
    /\ script = "idle"
    /\ tree = {}
    /\ dir_exists = <<>>
    /\ mpc = "idle"
    /\ walked = <<>>
    /\ file_counts = <<>>
    /\ violations = <<>>
    /\ skipped_files = <<>>
    /\ loads = <<>>
    /\ open_workbooks = {}
    /\ all_results = <<>>
    /\ total_files = 0
    /\ total_violations = 0
    /\ status = -1
    /\ printed = <<>>
    /\ report_file = <<>>

\* the file-name functions are not exercised
NameIdle ==
    /\ built_name = <<>>
    /\ name_parts = 0
    /\ name_dir = <<>>
    /\ name_regime = "idle"
    /\ name_valid = FALSE
    /\ name_algorithm = <<>>

\* the reader is not exercised
ReadIdle ==
    /\ sheet_row = <<>>
    /\ appended = 0
    /\ read_result = NoneValue
    /\ rpc = "idle"

NormInit ==
    /\ CmpIdle
    /\ ScanIdle
    /\ NameIdle
    /\ ReadIdle
    /\ \/ header \in NormInputs /\ base = -1
       \/ base \in 0..(Len(EXPECTED_HEADERS) - 1) /\ header = EXPECTED_HEADERS[base + 1]
    /\ edits = 0
    /\ norm1 = Pending
    /\ norm2 = Pending
    /\ found = -1
    /\ npc = "input"

\* the character at position i of s, "" outside s
At(s, i) == IF i \in DOMAIN s THEN s[i] ELSE ""

CanPerturb ==
    /\ npc = "input"
    /\ base >= 0
    /\ edits < MaxEdits

Perturb(v) ==
    /\ header' = v
    /\ edits' = edits + 1
    /\ UNCHANGED <<base, norm1, norm2, found, npc, cmpVars, scanVars, nameVars, readVars>>

\* a variant of a schema header: the case of one letter is changed
ChangeCase ==
    /\ CanPerturb
    /\ \E i \in DOMAIN header :
        /\ header[i] \in UpperSet \cup LowerSet
        /\ Perturb([header EXCEPT ![i] = IF @ \in UpperSet THEN LowerChar(@) ELSE UpperChar(@)])

\* a variant of a schema header: one whitespace character becomes another
ReplaceSpace ==
    /\ CanPerturb
    /\ \E i \in DOMAIN header, w \in Whitespace :
        /\ IsSpace(header[i])
        /\ header[i] # w
        /\ Perturb([header EXCEPT ![i] = w])

\* a variant of a schema header: a whitespace character is added to a
\* whitespace run, at either end of the header, or next to a '%'
InsertSpace ==
    /\ CanPerturb
    /\ \E i \in 1..(Len(header) + 1), w \in Whitespace :
        /\ \/ i = 1
           \/ i = Len(header) + 1
           \/ IsSpace(At(header, i))
           \/ IsSpace(At(header, i - 1))
           \/ At(header, i) = "%"
           \/ At(header, i - 1) = "%"
        /\ Perturb(InsertAt(header, i, w))

\* a variant of a schema header: a whitespace character next to a '%', at
\* either end of the header or inside a longer whitespace run is removed
RemoveSpace ==
    /\ CanPerturb
    /\ \E i \in DOMAIN header :
        /\ IsSpace(header[i])
        /\ \/ i = 1
           \/ i = Len(header)
           \/ At(header, i + 1) = "%"
           \/ At(header, i - 1) = "%"
           \/ IsSpace(At(header, i + 1))
           \/ IsSpace(At(header, i - 1))
        /\ Perturb(RemoveAt(header, i))

Normalize ==
    /\ npc = "input"
    /\ norm1' = normalize_header(header)
    /\ found' = find_header_in_expected(header)
    /\ npc' = "once"
    /\ UNCHANGED <<header, base, edits, norm2, cmpVars, scanVars, nameVars, readVars>>

Renormalize ==
    /\ npc = "once"
    /\ norm2' = normalize_header(norm1)
    /\ npc' = "twice"
    /\ UNCHANGED <<header, base, edits, norm1, found, cmpVars, scanVars, nameVars, readVars>>

NormNext ==
    \/ ChangeCase
    \/ ReplaceSpace
    \/ InsertSpace
    \/ RemoveSpace
    \/ Normalize
    \/ Renormalize

SpecNormalize == NormInit /\ [][NormNext]_vars

-----------------------------------------------------------------------------
(* compare_headers and compare_headers_order applied to bounded reader results *)

Upper(s) == [i \in DOMAIN s |-> UpperChar(s[i])]

\* a cell in upper case with the whitespace before '%' removed
Shout(cell) == RemoveSpaceBeforePct(Upper(cell))

\* a cell in lower case, every space widened to space-tab and a space put
\* before every '%'
RECURSIVE LoosenFrom(_, _)
LoosenFrom(s, i) ==
    IF i > Len(s) THEN <<>>
    ELSE (IF s[i] = " " THEN <<" ", "\t">>
          ELSE IF s[i] = "%" THEN <<" ", "%">>
          ELSE <<s[i]>>) \o LoosenFrom(s, i + 1)

Loosen(cell) == LoosenFrom(Lower(cell), 1)

\* cells that are no schema column: a foreign name, a blank cell, and a
\* schema name with the space before the parenthesis missing
Foo == <<"F", "o", "o">>
Blank == <<>>
NearMiss ==
    <<"A", "v", "g", " ", "H", "o", "s", "t", " ", "I", "D", "L", "E", " ", "T", "i", "m", "e", "(", "s", ")">>

\* The cells a header row is built from, by number: 3 * k + style for the
\* schema column k (0-based) written as in the schema (style 0), shouted
\* (style 1) or loosened (style 2); then the cells that are no schema column.
Styles == {"as in the schema", "shouted", "loosened"}
NumStyles == Cardinality(Styles)
FooId == NumStyles * Len(EXPECTED_HEADERS)
BlankId == FooId + 1
NearMissId == FooId + 2

CellIds == 0..NearMissId

CellOf ==
    [id \in CellIds |->
        IF id = FooId THEN Foo
        ELSE IF id = BlankId THEN Blank
        ELSE IF id = NearMissId THEN NearMiss
        ELSE LET cell == EXPECTED_HEADERS[(id \div NumStyles) + 1] IN
             CASE id % NumStyles = 0 -> cell
               [] id % NumStyles = 1 -> Shout(cell)
               [] OTHER -> Loosen(cell)]

\* the schema row, by cell number
SchemaRow == [p \in DOMAIN EXPECTED_HEADERS |-> NumStyles * (p - 1)]

\* what one cell may be replaced by: a cell that is no schema column, the
\* first schema column, or the same column in another style
Replacements(id) ==
    {FooId, BlankId, NearMissId, 0}
    \cup (IF id >= FooId THEN {}
          ELSE {NumStyles * (id \div NumStyles) + st : st \in 0..(NumStyles - 1)})

SwapCells(h, i, j) == [h EXCEPT ![i] = h[j], ![j] = h[i]]

\* the cells of a row
Cells(row) == [p \in DOMAIN row |-> CellOf[row[p]]]

\* str(e) of the exceptions the reader catches
Messages == {"File is not a zip file", "'NoneType' object is not subscriptable"}

\* the value handed to compare_headers and compare_headers_order
given_headers ==
    IF given.tag = "list" THEN ListOf(Cells(given.row))
    ELSE IF given.tag = "tuple" THEN TupleOf(given.message)
    ELSE NoneValue

CmpInit ==
    /\ NormIdle
    /\ ScanIdle
    /\ NameIdle
    /\ ReadIdle
    /\ \/ given = [tag |-> "list", row |-> SchemaRow]
       \/ \E m \in Messages : given = [tag |-> "tuple", message |-> m]
       \/ given = [tag |-> "None"]
    /\ row_edits = 0
    /\ exact_result = PendingResult
    /\ order_result = PendingResult
    /\ cpc = "input"

CanEditRow ==
    /\ cpc = "input"
    /\ given.tag = "list"
    /\ row_edits < MaxHeaderEdits

EditRow(row) ==
    /\ given' = [given EXCEPT !.row = row]
    /\ row_edits' = row_edits + 1
    /\ UNCHANGED <<exact_result, order_result, cpc, normVars, scanVars, nameVars, readVars>>

\* the file has two columns the other way round
SwapColumns ==
    /\ CanEditRow
    /\ \E i \in DOMAIN given.row, j \in DOMAIN given.row :
        /\ i < j
        /\ EditRow(SwapCells(given.row, i, j))

\* the file has another cell in one column
ReplaceCell ==
    /\ CanEditRow
    /\ \E i \in DOMAIN given.row :
        \E c \in Replacements(given.row[i]) \ {given.row[i]} :
            EditRow([given.row EXCEPT ![i] = c])

\* the file lacks the last columns (all of them: an empty first row)
TruncateRow ==
    /\ CanEditRow
    /\ \E n \in 0..(Len(given.row) - 1) : EditRow(SubSeq(given.row, 1, n))

\* the file has all the schema columns, in any order, each written in some style
PermuteColumns ==
    /\ cpc = "input"
    /\ given.tag = "list"
    /\ row_edits = 0
    /\ \E perm \in Permutations(DOMAIN EXPECTED_HEADERS) :
        /\ given' = [given EXCEPT !.row =
                        [p \in DOMAIN perm |-> NumStyles * (perm[p] - 1) + ((p + perm[1]) % NumStyles)]]
        /\ row_edits' = MaxHeaderEdits
        /\ UNCHANGED <<exact_result, order_result, cpc, normVars, scanVars, nameVars, readVars>>

\* the file has one more column
AppendCell ==
    /\ CanEditRow
    /\ \E c \in {FooId, 0} : EditRow(Append(given.row, c))

\* get_header_from_xlsx pops the trailing empty cells, so a row that ends in
\* one is never handed over
CanCompare ==
    IF given.tag = "list" /\ given.row # <<>>
    THEN given.row[Len(given.row)] # BlankId
    ELSE TRUE

CompareHeaders ==
    /\ cpc = "input"
    /\ CanCompare
    /\ \E actual \in {given_headers} :
          exact_result' = compare_headers(actual, EXPECTED_HEADERS)
    /\ cpc' = "exact"
    /\ UNCHANGED <<given, row_edits, order_result, normVars, scanVars, nameVars, readVars>>

CompareHeadersOrder ==
    /\ cpc = "exact"
    /\ \E actual \in {given_headers} :
          order_result' = compare_headers_order(actual, EXPECTED_HEADERS)
    /\ cpc' = "order"
    /\ UNCHANGED <<given, row_edits, exact_result, normVars, scanVars, nameVars, readVars>>

CmpNext ==
    \/ SwapColumns
    \/ ReplaceCell
    \/ TruncateRow
    \/ AppendCell
    \/ CompareHeaders
    \/ CompareHeadersOrder

SpecCompare == CmpInit /\ [][CmpNext]_vars

PermNext ==
    \/ PermuteColumns
    \/ CompareHeaders
    \/ CompareHeadersOrder

SpecPermute == CmpInit /\ [][PermNext]_vars

-----------------------------------------------------------------------------
(* File names (both scripts) *)

\* the known multi-objective algorithm names, in the order they are tried
MULTI_OBJECTIVE_ALGORITHMS == <<
    <<"M", "O", "E", "A", "_", "A", "M", "O", "S", "A">>,
    <<"M", "O", "E", "A", "_", "e", "N", "S", "G", "A", "I", "I">>,
    <<"M", "O", "E", "A", "_", "N", "S", "G", "A", "I", "I">>,
    <<"M", "O", "E", "A", "_", "S", "P", "E", "A", "I", "I">> >>

\* the single-objective folders and the file prefixes written next to them
SINGLE_OBJECTIVE_MAPPING == <<
    [folder |-> <<"G", "A", "_", "A", "v", "g", "W", "a", "i", "t">>,
     prefixes |-> <<<<"G", "A", "_", "S", "T", "T">>>>],
    [folder |-> <<"G", "A", "_", "E", "n", "e", "r", "g", "y">>,
     prefixes |-> <<<<"G", "A", "_", "P", "O", "W", "E", "R">>>>],
    [folder |-> <<"G", "A", "_", "I", "S", "L", "_", "A", "v", "g", "W", "a", "i", "t">>,
     prefixes |-> <<<<"G", "A", "_", "S", "T", "T", "_", "I", "S", "L">>>>],
    [folder |-> <<"G", "A", "_", "I", "S", "L", "_", "E", "n", "e", "r", "g", "y">>,
     prefixes |-> <<<<"G", "A", "_", "P", "O", "W", "_", "I", "S", "L">>>>],
    [folder |-> <<"G", "A", "_", "I", "S", "L", "_", "M", "a", "k", "e", "s", "p", "a", "n">>,
     prefixes |-> <<<<"G", "A", "_", "M", "K", "S", "_", "I", "S", "L">>>>],
    [folder |-> <<"G", "A", "_", "M", "A", "K", "E", "S", "P", "A", "N">>,
     prefixes |-> <<<<"G", "A", "_", "M", "A", "K", "E", "S", "P", "A", "N">>>>],
    [folder |-> <<"L", "J", "F", "_", "B", "E", "S", "T">>,
     prefixes |-> <<<<"L", "J", "F", "_", "B", "E", "S", "T">>>>],
    [folder |-> <<"L", "J", "F", "_", "W", "O", "R", "S", "T">>,
     prefixes |-> <<<<"L", "J", "F", "_", "W", "O", "R", "S", "T">>>>],
    [folder |-> <<"S", "A", "_", "A", "v", "g", "W", "a", "i", "t">>,
     prefixes |-> <<<<"S", "A", "_", "S", "T", "T">>>>],
    [folder |-> <<"S", "A", "_", "E", "n", "e", "r", "g", "y">>,
     prefixes |-> <<<<"S", "A", "_", "P", "O", "W", "E", "R">>>>],
    [folder |-> <<"S", "A", "_", "M", "a", "k", "e", "s", "p", "a", "n">>,
     prefixes |-> <<<<"S", "A", "_", "M", "A", "K", "E", "S", "P", "A", "N">>>>],
    [folder |-> <<"S", "J", "F", "_", "B", "E", "S", "T">>,
     prefixes |-> <<<<"S", "J", "F", "_", "B", "E", "S", "T">>>>],
    [folder |-> <<"S", "J", "F", "_", "W", "O", "R", "S", "T">>,
     prefixes |-> <<<<"S", "J", "F", "_", "W", "O", "R", "S", "T">>>>] >>

UNKNOWN == <<"U", "N", "K", "N", "O", "W", "N">>
DotXlsx == <<".", "x", "l", "s", "x">>
RndMarker == <<"_", "r", "n", "d", "_">>
SolMarker == <<"_", "s", "o", "l", "_">>
MoeaPrefix == <<"M", "O", "E", "A", "_">>
QualifierE == <<"_", "e", "V", "S", "s">>
QualifierM == <<"_", "m", "V", "S", "s">>
Digits == <<"0", "1", "2", "3", "4", "5", "6", "7", "8", "9">>

\* \d and \w of the regular expressions, over ASCII
IsDigit(c) == c \in Range(Digits)
IsWord(c) == c \in UpperSet \cup LowerSet \cup Range(Digits) \cup {"_"}

\* the literal lit stands in s from position i on
StartsWithAt(s, i, lit) ==
    /\ i >= 1
    /\ i + Len(lit) - 1 <= Len(s)
    /\ SubSeq(s, i, i + Len(lit) - 1) = lit

\* str.startswith and str.endswith
StartsWith(s, prefix) == StartsWithAt(s, 1, prefix)
EndsWith(s, suffix) == StartsWithAt(s, Len(s) - Len(suffix) + 1, suffix)

\* \d+ or \d{n}: positions i..j of s hold digits, at least one
DigitsBetween(s, i, j) ==
    /\ 1 <= i
    /\ i <= j
    /\ j <= Len(s)
    /\ \A k \in i..j : IsDigit(s[k])

\* _\d{2} from position i on
TimeField(s, i) == At(s, i) = "_" /\ DigitsBetween(s, i + 1, i + 2)

\* VALID_FILENAME_PATTERN.match(filename) is not None, for the pattern
\*   ^.+_rnd_\d+_\d{2}_\d{2}_\d{2}_sol_\d+\.xlsx$
\* i is where _rnd_ starts and n the number of digits after it; '.' matches
\* no newline, and '$' matches at the end or before one trailing newline
is_valid_filename(filename) ==
    \E end \in {Len(filename)} \cup
               (IF filename # <<>> /\ filename[Len(filename)] = "\n"
                THEN {Len(filename) - 1} ELSE {}) :
      \E i \in 2..end :
        /\ StartsWithAt(filename, i, RndMarker)
        /\ \A k \in 1..(i - 1) : filename[k] # "\n"
        /\ \E n \in 1..(end - i) :
            /\ DigitsBetween(filename, i + 5, i + 4 + n)
            /\ TimeField(filename, i + 5 + n)
            /\ TimeField(filename, i + 8 + n)
            /\ TimeField(filename, i + 11 + n)
            /\ StartsWithAt(filename, i + 14 + n, SolMarker)
            /\ DigitsBetween(filename, i + 19 + n, end - 5)
            /\ StartsWithAt(filename, end - 4, DotXlsx)

\* a path as os.walk and os.path.join give it: the directories from the
\* scanned base directory down, and the file name
PathOf(root, filename) == [root |-> root, filename |-> filename]

\* (?:_eVSs|_mVSs)?_rnd_ matches in s from position p on
QualifiedRndAt(s, p) ==
    IF StartsWithAt(s, p, QualifierE \o RndMarker) THEN TRUE
    ELSE IF StartsWithAt(s, p, QualifierM \o RndMarker) THEN TRUE
    ELSE StartsWithAt(s, p, RndMarker)

\* the lengths n of \w+? with which ^(MOEA_\w+?)(?:_eVSs|_mVSs)?_rnd_ matches
FallbackLengths(filename) ==
    {n \in 1..Len(filename) :
        /\ StartsWith(filename, MoeaPrefix)
        /\ \A k \in 1..n : IsWord(At(filename, Len(MoeaPrefix) + k))
        /\ QualifiedRndAt(filename, Len(MoeaPrefix) + n + 1)}

\* extract_algorithm_name with a greedy \w+ in the fallback pattern
extract_algorithm_name_greedy(filepath, is_multi_objective) ==
    LET filename == filepath.filename
        known == {k \in DOMAIN MULTI_OBJECTIVE_ALGORITHMS :
                    StartsWith(filename, MULTI_OBJECTIVE_ALGORITHMS[k])}
        lengths == FallbackLengths(filename)
        parent_folder == filepath.root[Len(filepath.root)]
    IN  IF is_multi_objective
        THEN IF known # {}
             THEN MULTI_OBJECTIVE_ALGORITHMS[CHOOSE k \in known : \A j \in known : k <= j]
             ELSE IF lengths # {}
             THEN SubSeq(filename, 1,
                         Len(MoeaPrefix) + (CHOOSE n \in lengths : \A m \in lengths : n >= m))
             ELSE UNKNOWN
        ELSE IF \E k \in DOMAIN SINGLE_OBJECTIVE_MAPPING :
                    SINGLE_OBJECTIVE_MAPPING[k].folder = parent_folder
             THEN parent_folder
             ELSE UNKNOWN

\* extract_algorithm_name with the fallback pattern tried before the known names
extract_algorithm_name_fallback_first(filepath, is_multi_objective) ==
    LET filename == filepath.filename
        known == {k \in DOMAIN MULTI_OBJECTIVE_ALGORITHMS :
                    StartsWith(filename, MULTI_OBJECTIVE_ALGORITHMS[k])}
        lengths == FallbackLengths(filename)
        parent_folder == filepath.root[Len(filepath.root)]
    IN  IF is_multi_objective
        THEN IF lengths # {}
             THEN SubSeq(filename, 1,
                         Len(MoeaPrefix) + (CHOOSE n \in lengths : \A m \in lengths : n <= m))
             ELSE IF known # {}
             THEN MULTI_OBJECTIVE_ALGORITHMS[CHOOSE k \in known : \A j \in known : k <= j]
             ELSE UNKNOWN
        ELSE IF \E k \in DOMAIN SINGLE_OBJECTIVE_MAPPING :
                    SINGLE_OBJECTIVE_MAPPING[k].folder = parent_folder
             THEN parent_folder
             ELSE UNKNOWN

\* extract_algorithm_name with the single-objective folder accepted only for
\* files that start with a prefix the mapping lists for it
extract_algorithm_name_by_prefix(filepath, is_multi_objective) ==
    LET filename == filepath.filename
        known == {k \in DOMAIN MULTI_OBJECTIVE_ALGORITHMS :
                    StartsWith(filename, MULTI_OBJECTIVE_ALGORITHMS[k])}
        lengths == FallbackLengths(filename)
        parent_folder == filepath.root[Len(filepath.root)]
    IN  IF is_multi_objective
        THEN IF known # {}
             THEN MULTI_OBJECTIVE_ALGORITHMS[CHOOSE k \in known : \A j \in known : k <= j]
             ELSE IF lengths # {}
             THEN SubSeq(filename, 1,
                         Len(MoeaPrefix) + (CHOOSE n \in lengths : \A m \in lengths : n <= m))
             ELSE UNKNOWN
        ELSE IF \E k \in DOMAIN SINGLE_OBJECTIVE_MAPPING :
                    /\ SINGLE_OBJECTIVE_MAPPING[k].folder = parent_folder
                    /\ \E j \in DOMAIN SINGLE_OBJECTIVE_MAPPING[k].prefixes :
                          StartsWith(filename, SINGLE_OBJECTIVE_MAPPING[k].prefixes[j])
             THEN parent_folder
             ELSE UNKNOWN

\* extract_algorithm_name: in the multi-objective tree the first known name
\* the file name starts with, else group 1 of the fallback pattern (\w+? is
\* lazy: the shortest match); in the single-objective tree the parent folder
\* if the mapping has it
extract_algorithm_name(filepath, is_multi_objective) ==
    LET filename == filepath.filename
        known == {k \in DOMAIN MULTI_OBJECTIVE_ALGORITHMS :
                    StartsWith(filename, MULTI_OBJECTIVE_ALGORITHMS[k])}
        lengths == FallbackLengths(filename)
        parent_folder == filepath.root[Len(filepath.root)]
    IN  IF is_multi_objective
        THEN IF known # {}
             THEN MULTI_OBJECTIVE_ALGORITHMS[CHOOSE k \in known : \A j \in known : k <= j]
             ELSE IF lengths # {}
             THEN SubSeq(filename, 1,
                         Len(MoeaPrefix) + (CHOOSE n \in lengths : \A m \in lengths : n <= m))
             ELSE UNKNOWN
        ELSE IF \E k \in DOMAIN SINGLE_OBJECTIVE_MAPPING :
                    SINGLE_OBJECTIVE_MAPPING[k].folder = parent_folder
             THEN parent_folder
             ELSE UNKNOWN

-----------------------------------------------------------------------------
(* get_header_from_xlsx (both scripts) *)

\* the values openpyxl hands over as cell.value
NoneCell == [type |-> "NoneType"]
StrCell(s) == [type |-> "str", str |-> s]
IntCell(n) == [type |-> "int", int |-> n]
BoolCell(b) == [type |-> "bool", bool |-> b]

\* str(n) of a natural number
RECURSIVE DecimalDigits(_)
DecimalDigits(n) ==
    IF n < 10 THEN <<Digits[n + 1]>>
    ELSE Append(DecimalDigits(n \div 10), Digits[(n % 10) + 1])

\* str(True), str(False)
TrueText == <<"T", "r", "u", "e">>
FalseText == <<"F", "a", "l", "s", "e">>

\* str(value)
Str(value) ==
    IF value.type = "str" THEN value.str
    ELSE IF value.type = "int"
    THEN IF value.int < 0 THEN <<"-">> \o DecimalDigits(-value.int)
         ELSE DecimalDigits(value.int)
    ELSE IF value.bool THEN TrueText ELSE FalseText

\* the truth value of a cell value that is not None
Truthy(value) ==
    IF value.type = "str" THEN value.str # <<>>
    ELSE IF value.type = "int" THEN value.int # 0
    ELSE value.bool

\* the loop with the text of every value that is not None, a zero and a
\* False included
CellText_none_only(value) ==
    IF value.type # "NoneType" THEN Strip(Str(value)) ELSE <<>>

\* what the loop appends for one cell
CellText(value) ==
    IF value.type # "NoneType"
    THEN IF Truthy(value) THEN Strip(Str(value)) ELSE <<>>
    ELSE <<>>

\* every empty string is removed, wherever it stands
PopTrailingEmpty_everywhere(headers) ==
    LET NotEmpty(text) == text # <<>> IN SelectSeq(headers, NotEmpty)

\* the loop left after its first pass: at most one cell is popped
PopTrailingEmpty_once(headers) ==
    IF headers # <<>> /\ headers[Len(headers)] = <<>>
    THEN SubSeq(headers, 1, Len(headers) - 1)
    ELSE headers

\* while headers and headers[-1] == "": headers.pop()
RECURSIVE PopTrailingEmpty(_)
PopTrailingEmpty(headers) ==
    IF headers # <<>> /\ headers[Len(headers)] = <<>>
    THEN PopTrailingEmpty(SubSeq(headers, 1, Len(headers) - 1))
    ELSE headers

\* what is stored under a path: a workbook whose first row can be read, a
\* file load_workbook rejects, or a workbook that opens and whose first row
\* cannot be read (no active sheet, damaged sheet part)
Workbook(first_row) == [kind |-> "workbook", first_row |-> first_row]
NotAWorkbook == [kind |-> "not a workbook", message |-> "File is not a zip file"]
UnreadableSheet ==
    [kind |-> "unreadable sheet", message |-> "'NoneType' object is not subscriptable"]

-----------------------------------------------------------------------------
(* The files the scans may meet *)

\* the two directories main scans, and directories below them
\* "Multi-Objective Algorithms"
DirMulti ==
    <<"M", "u", "l", "t", "i", "-", "O", "b", "j", "e", "c", "t", "i", "v", "e", " ", "A", "l",
      "g", "o", "r", "i", "t", "h", "m", "s">>
\* "Single - Objective Algorithms"
DirSingle ==
    <<"S", "i", "n", "g", "l", "e", " ", "-", " ", "O", "b", "j", "e", "c", "t", "i", "v", "e",
      " ", "A", "l", "g", "o", "r", "i", "t", "h", "m", "s">>
\* "run_01"
DirRun ==
    <<"r", "u", "n", "_", "0", "1">>
\* "GA_AvgWait"
DirGaAvgWait ==
    <<"G", "A", "_", "A", "v", "g", "W", "a", "i", "t">>
\* "SA_Energy"
DirSaEnergy ==
    <<"S", "A", "_", "E", "n", "e", "r", "g", "y">>
\* "misc"
DirMisc ==
    <<"m", "i", "s", "c">>

\* file names
\* "MOEA_AMOSA_rnd_7_01_02_03_sol_1.xlsx"
NameAmosa ==
    <<"M", "O", "E", "A", "_", "A", "M", "O", "S", "A", "_", "r", "n", "d", "_", "7", "_", "0",
      "1", "_", "0", "2", "_", "0", "3", "_", "s", "o", "l", "_", "1", ".", "x", "l", "s", "x">>
\* "MOEA_NSGAII_eVSs_rnd_12_10_20_30_sol_25.xlsx"
NameNsgaii ==
    <<"M", "O", "E", "A", "_", "N", "S", "G", "A", "I", "I", "_", "e", "V", "S", "s", "_", "r",
      "n", "d", "_", "1", "2", "_", "1", "0", "_", "2", "0", "_", "3", "0", "_", "s", "o", "l",
      "_", "2", "5", ".", "x", "l", "s", "x">>
\* "MOEA_SPEAII_rnd_1_00_00_00_sol_3.xlsx"
NameSpeaii ==
    <<"M", "O", "E", "A", "_", "S", "P", "E", "A", "I", "I", "_", "r", "n", "d", "_", "1", "_",
      "0", "0", "_", "0", "0", "_", "0", "0", "_", "s", "o", "l", "_", "3", ".", "x", "l", "s",
      "x">>
\* "MOEA_eNSGAII_mVSs_rnd_5_11_22_33_sol_2.xlsx"
NameEnsgaii ==
    <<"M", "O", "E", "A", "_", "e", "N", "S", "G", "A", "I", "I", "_", "m", "V", "S", "s", "_",
      "r", "n", "d", "_", "5", "_", "1", "1", "_", "2", "2", "_", "3", "3", "_", "s", "o", "l",
      "_", "2", ".", "x", "l", "s", "x">>
\* "MOEA_XYZ_mVSs_rnd_3_00_00_01_sol_2.xlsx"
NameOther ==
    <<"M", "O", "E", "A", "_", "X", "Y", "Z", "_", "m", "V", "S", "s", "_", "r", "n", "d", "_",
      "3", "_", "0", "0", "_", "0", "0", "_", "0", "1", "_", "s", "o", "l", "_", "2", ".", "x",
      "l", "s", "x">>
\* "notes.xlsx"
NameNotes ==
    <<"n", "o", "t", "e", "s", ".", "x", "l", "s", "x">>
\* "README.md"
NameReadme ==
    <<"R", "E", "A", "D", "M", "E", ".", "m", "d">>
\* "GA_STT_rnd_3_00_00_01_sol_1.xlsx"
NameGaStt ==
    <<"G", "A", "_", "S", "T", "T", "_", "r", "n", "d", "_", "3", "_", "0", "0", "_", "0", "0",
      "_", "0", "1", "_", "s", "o", "l", "_", "1", ".", "x", "l", "s", "x">>
\* "SA_POWER_rnd_4_01_01_01_sol_1.xlsx"
NameSaPower ==
    <<"S", "A", "_", "P", "O", "W", "E", "R", "_", "r", "n", "d", "_", "4", "_", "0", "1", "_",
      "0", "1", "_", "0", "1", "_", "s", "o", "l", "_", "1", ".", "x", "l", "s", "x">>
\* "LJF_BEST_rnd_2_02_02_02_sol_1.xlsx"
NameLjf ==
    <<"L", "J", "F", "_", "B", "E", "S", "T", "_", "r", "n", "d", "_", "2", "_", "0", "2", "_",
      "0", "2", "_", "0", "2", "_", "s", "o", "l", "_", "1", ".", "x", "l", "s", "x">>
\* "MOEA_AMOSA_rnd_7_1_02_03_sol_1.xlsx"
NameOneDigit ==
    <<"M", "O", "E", "A", "_", "A", "M", "O", "S", "A", "_", "r", "n", "d", "_", "7", "_", "1",
      "_", "0", "2", "_", "0", "3", "_", "s", "o", "l", "_", "1", ".", "x", "l", "s", "x">>

\* first rows
TextRow(cells) == [p \in DOMAIN cells |-> StrCell(cells[p])]
\* the schema, its first cell padded, followed by two cells that read as empty
ConformingRow ==
    TextRow([EXPECTED_HEADERS EXCEPT ![1] = <<" ">> \o @ \o <<"\t">>])
        \o <<NoneCell, StrCell(<<" ">>)>>
\* the schema with columns 6 and 7 the other way round
SwappedRow == TextRow(SwapCells(EXPECTED_HEADERS, 6, 7))
\* the schema in other letter case and spacing
LooseRow ==
    TextRow([p \in DOMAIN EXPECTED_HEADERS |->
                IF p % 2 = 0 THEN Shout(EXPECTED_HEADERS[p]) ELSE Loosen(EXPECTED_HEADERS[p])])
\* the schema with a foreign third column
ForeignRow == TextRow([EXPECTED_HEADERS EXCEPT ![3] = Foo])
\* a sheet of numbers
NumberRow == <<IntCell(0), IntCell(42), BoolCell(FALSE), NoneCell>>

FileOf(root, filename, content) == [root |-> root, filename |-> filename, content |-> content]

FileCatalog == <<
    FileOf(<<DirMulti, DirRun>>, NameAmosa, Workbook(ConformingRow)),
    FileOf(<<DirMulti, DirRun>>, NameNsgaii, Workbook(SwappedRow)),
    FileOf(<<DirMulti, DirRun>>, NameSpeaii, NotAWorkbook),
    FileOf(<<DirMulti, DirRun>>, NameEnsgaii, UnreadableSheet),
    FileOf(<<DirMulti>>, NameOther, Workbook(LooseRow)),
    FileOf(<<DirMulti, DirRun>>, NameNotes, Workbook(ConformingRow)),
    FileOf(<<DirMulti>>, NameReadme, NotAWorkbook),
    FileOf(<<DirMulti, DirMisc>>, NameGaStt, Workbook(NumberRow)),
    FileOf(<<DirSingle, DirGaAvgWait>>, NameGaStt, Workbook(ConformingRow)),
    FileOf(<<DirSingle, DirSaEnergy>>, NameSaPower, Workbook(ForeignRow)),
    FileOf(<<DirSingle, DirMisc>>, NameLjf, UnreadableSheet),
    FileOf(<<DirSingle, DirGaAvgWait>>, NameOneDigit, Workbook(SwappedRow)),
    FileOf(<<DirMulti, DirMisc>>, NameAmosa, Workbook(LooseRow)) >>

FileIds == DOMAIN FileCatalog

\* the path of a file of the catalog
PathOfFile(id) == PathOf(FileCatalog[id].root, FileCatalog[id].filename)

\* the path of the workbook whose first row is sheet_row
ProbePath == PathOf(<<DirSingle, DirSaEnergy>>, NameGaStt)

\* what the file system holds under a path
ContentAt(filepath) ==
    IF filepath = ProbePath THEN Workbook(sheet_row)
    ELSE FileCatalog[CHOOSE id \in FileIds : PathOfFile(id) = filepath].content

\* get_header_from_xlsx with no except branch: the exception leaves the function
get_header_from_xlsx_no_except(filepath) ==
    LET content == ContentAt(filepath)
    IN  IF content.kind = "workbook"
        THEN [returned |-> ListOf(PopTrailingEmpty(
                               [p \in DOMAIN content.first_row |-> CellText(content.first_row[p])])),
              raised |-> FALSE, loads |-> 1, left_open |-> FALSE]
        ELSE [returned |-> NoneValue, raised |-> TRUE, loads |-> 1,
              left_open |-> content.kind = "unreadable sheet"]

\* get_header_from_xlsx: what it returns, whether an exception leaves it, how
\* often it calls load_workbook, and whether it returns without having
\* reached wb.close() on a workbook it opened. wb.close() is the last
\* statement of the loop's try body: a failure of load_workbook leaves no
\* workbook behind, a failure after it goes to the except branch and leaves
\* the workbook open.
get_header_from_xlsx(filepath) ==
    LET content == ContentAt(filepath)
    IN  IF content.kind = "workbook"
        THEN [returned |-> ListOf(PopTrailingEmpty(
                               [p \in DOMAIN content.first_row |-> CellText(content.first_row[p])])),
              raised |-> FALSE, loads |-> 1, left_open |-> FALSE]
        ELSE [returned |-> TupleOf(content.message), raised |-> FALSE, loads |-> 1,
              left_open |-> content.kind = "unreadable sheet"]

-----------------------------------------------------------------------------
(* scan_directory and main (both scripts) *)

Scripts == {"check_headers", "check_headers_order"}
\* main scans the multi-objective tree, then the single-objective tree
Sections == {"multi", "single"}

\* the scanned directory a file of the catalog lies under
SectionOf(id) == IF FileCatalog[id].root[1] = DirMulti THEN "multi" ELSE "single"

SectionTitle(section) ==
    IF section = "multi" THEN "Multi-Objective Algorithms" ELSE "Single - Objective Algorithms"

\* where main stands before and after the scan of a section
Before(section) == IF section = "multi" THEN "start" ELSE "between"
After(section) == IF section = "multi" THEN "between" ELSE "summary"

\* the comparison the running script makes, and the record it appends
Compare(headers) ==
    IF script = "check_headers"
    THEN compare_headers(headers, EXPECTED_HEADERS)
    ELSE compare_headers_order(headers, EXPECTED_HEADERS)

Violation(filepath, algorithm, verdict, headers) ==
    IF script = "check_headers"
    THEN [filepath |-> filepath, algorithm |-> algorithm,
          difference |-> verdict.difference, headers |-> headers]
    ELSE [filepath |-> filepath, algorithm |-> algorithm,
          difference |-> verdict.difference, headers |-> headers,
          details |-> verdict.details]

\* a record put in front of the list
AppendViolation_in_front(records, record) == <<record>> \o records

\* violations.append(...)
AppendViolation(records, record) == Append(records, record)

\* the count set to one instead of incremented
Increment_overwrite(counts, key) ==
    [k \in DOMAIN counts \cup {key} |-> IF k = key THEN 1 ELSE counts[k]]

\* file_counts[algorithm] += 1 on a defaultdict(int)
Increment(counts, key) ==
    IF key \in DOMAIN counts THEN [counts EXCEPT ![key] = @ + 1]
    ELSE [k \in DOMAIN counts \cup {key} |-> IF k = key THEN 1 ELSE counts[k]]

\* sum(file_counts.values())
RECURSIVE SumValues(_)
SumValues(counts) ==
    IF DOMAIN counts = {} THEN 0
    ELSE LET k == CHOOSE j \in DOMAIN counts : TRUE
         IN  counts[k] + SumValues([j \in DOMAIN counts \ {k} |-> counts[j]])

\* os.walk(base_path), top down: the files of the scanned directory itself
\* first, then directory by directory; the order of the directories and of
\* the files within one directory is the file system's
NextFiles ==
    LET unvisited == {id \in tree : SectionOf(id) = mpc /\ id \notin Range(walked)}
        here == IF walked = <<>> THEN {}
                ELSE {id \in unvisited :
                        FileCatalog[id].root = FileCatalog[walked[Len(walked)]].root}
        top == {id \in unvisited : Len(FileCatalog[id].root) = 1}
    IN  IF here # {} THEN here
        ELSE IF top # {} THEN top
        ELSE unvisited

\* main starts: the two directories hold at most MaxFiles files of the catalog
Init ==
    /\ NormIdle
    /\ CmpIdle
    /\ NameIdle
    /\ ReadIdle
    /\ script \in Scripts
    /\ tree \in {files \in SUBSET FileIds : Cardinality(files) <= MaxFiles}
    /\ dir_exists \in {exists \in [Sections -> BOOLEAN] :
                            \A id \in tree : exists[SectionOf(id)]}
    /\ mpc = "start"
    /\ walked = <<>>
    /\ file_counts = <<>>
    /\ violations = <<>>
    /\ skipped_files = <<>>
    /\ loads = [id \in FileIds |-> 0]
    /\ open_workbooks = {}
    /\ all_results = <<>>
    /\ total_files = 0
    /\ total_violations = 0
    /\ status = -1
    /\ printed = <<>>
    /\ report_file = <<>>

\* a line of output: its text and the value put into it, None if none
Line(text, value) == [text |-> text, value |-> value]

\* the wording that differs between the two scripts
IsOrderScript == script = "check_headers_order"
ScriptTitle ==
    IF IsOrderScript THEN "HEADER ORDER VALIDATION SCRIPT" ELSE "HEADER VALIDATION SCRIPT"
ReportTitle ==
    IF IsOrderScript THEN "HEADER ORDER VALIDATION REPORT" ELSE "HEADER VALIDATION REPORT"
ReportName ==
    IF IsOrderScript THEN "header_order_validation_report.txt"
    ELSE "header_validation_report.txt"
SchemaLines ==
    IF IsOrderScript
    THEN <<Line("Expected Header Order:", EXPECTED_HEADERS),
           Line("Note: Headers are normalized for comparison (minor spacing differences ignored)",
                None)>>
    ELSE <<Line("Expected Header (exact match):", EXPECTED_HEADERS)>>
SectionViolationsLabel ==
    IF IsOrderScript THEN "Files with order violations" ELSE "Files with header violations"
TotalViolationsLabel ==
    IF IsOrderScript THEN "Total order violations found" ELSE "Total violations found"
NoViolationsText ==
    IF IsOrderScript
    THEN "No order violations found! All headers are in the correct order."
    ELSE "No violations found! All headers match the expected format."

\* what main prints before the first scan
Banner == <<Line(ScriptTitle, None)>> \o SchemaLines

SectionHeading(section) ==
    Line(IF section = "multi" THEN "MULTI-OBJECTIVE ALGORITHMS"
         ELSE "SINGLE-OBJECTIVE ALGORITHMS", None)

\* the lines for one scan: the counts by algorithm, their total, the number
\* of skipped files and the number of records
ResultLines(counts, skipped, records) ==
    <<Line("File counts per algorithm:", counts),
      Line("Total valid files", SumValues(counts)),
      Line("Skipped files (naming convention)", Len(skipped)),
      Line(SectionViolationsLabel, Len(records))>>

\* the lines for one record; the headers are shown if they are a list that
\* is not empty
RECURSIVE RecordLines(_)
RecordLines(records) ==
    IF records = <<>> THEN <<>>
    ELSE LET record == Head(records)
         IN  <<Line("File", record.filepath),
               Line("Algorithm", record.algorithm),
               Line("Issue", record.difference)>>
             \o (IF record.headers.tag = "list"
                 THEN IF record.headers.cells # <<>>
                      THEN <<Line("Actual headers", record.headers.cells)>> ELSE <<>>
                 ELSE <<>>)
             \o RecordLines(Tail(records))

\* the violation details: for each scan with records its title and its records
RECURSIVE DetailLines(_)
DetailLines(results) ==
    IF results = <<>> THEN <<>>
    ELSE (IF Head(results).violations # <<>>
          THEN <<Line(Head(results).section, None)>> \o RecordLines(Head(results).violations)
          ELSE <<>>)
         \o DetailLines(Tail(results))

\* the summary, as printed and as written to the report file
SummaryLines(results, files, records) ==
    <<Line("SUMMARY", None),
      Line("Total files processed", files),
      Line(TotalViolationsLabel, records)>>
    \o (IF records > 0
        THEN <<Line("VIOLATION DETAILS", None)>> \o DetailLines(results)
        ELSE <<Line(NoViolationsText, None)>>)

\* the part of the report file for the scans that were made
RECURSIVE ScanLines(_)
ScanLines(results) ==
    IF results = <<>> THEN <<>>
    ELSE <<Line(Head(results).section, None)>>
         \o ResultLines(Head(results).file_counts, Head(results).skipped,
                        Head(results).violations)
         \o ScanLines(Tail(results))

ReportLines(results, files, records) ==
    <<Line(ReportTitle, None)>> \o SchemaLines \o ScanLines(results)
        \o SummaryLines(results, files, records)

\* main finds the directory of a section and calls scan_directory, which
\* starts with empty results
EnterScan(section) ==
    /\ mpc = Before(section)
    /\ dir_exists[section]
    /\ mpc' = section
    /\ walked' = <<>>
    /\ file_counts' = <<>>
    /\ violations' = <<>>
    /\ skipped_files' = <<>>
    /\ printed' = printed \o (IF section = "multi" THEN Banner ELSE <<>>)
                        \o <<SectionHeading(section)>>
    /\ UNCHANGED <<script, tree, dir_exists, loads, open_workbooks, all_results,
                   total_files, total_violations, status, report_file,
                   normVars, cmpVars, nameVars, readVars>>

\* main does not find the directory of a section
SkipScan(section) ==
    /\ mpc = Before(section)
    /\ ~dir_exists[section]
    /\ mpc' = After(section)
    /\ printed' = printed \o (IF section = "multi" THEN Banner ELSE <<>>)
                        \o <<SectionHeading(section),
                              Line("Directory not found", SectionTitle(section))>>
    /\ UNCHANGED <<script, tree, dir_exists, walked, file_counts, violations, skipped_files,
                   loads, open_workbooks, all_results, total_files, total_violations, status,
                   report_file, normVars, cmpVars, nameVars, readVars>>

\* the body of the loop with a file of a non-conforming name put on the skip
\* list and counted all the same
Iteration_counts_skipped(id) ==
    LET filename == FileCatalog[id].filename
        filepath == PathOf(FileCatalog[id].root, filename)
    IN  /\ walked' = Append(walked, id)
        /\ IF ~EndsWith(filename, DotXlsx)
           THEN UNCHANGED <<mpc, file_counts, violations, skipped_files, loads, open_workbooks>>
           ELSE IF ~is_valid_filename(filename)
           THEN /\ skipped_files' = Append(skipped_files, filepath)
                /\ file_counts' =
                      Increment(file_counts, extract_algorithm_name(filepath, mpc = "multi"))
                /\ UNCHANGED <<mpc, violations, loads, open_workbooks>>
           ELSE \E algorithm \in {extract_algorithm_name(filepath, mpc = "multi")},
                   outcome \in {get_header_from_xlsx(filepath)} :
                /\ file_counts' = Increment(file_counts, algorithm)
                /\ loads' = [loads EXCEPT ![id] = @ + outcome.loads]
                /\ open_workbooks' = IF outcome.left_open THEN open_workbooks \cup {id}
                                     ELSE open_workbooks
                /\ IF outcome.raised
                   THEN /\ mpc' = "aborted"
                        /\ UNCHANGED violations
                   ELSE /\ mpc' = mpc
                        /\ \E verdict \in {Compare(outcome.returned)} :
                            violations' =
                                IF verdict.is_match THEN violations
                                ELSE AppendViolation(violations,
                                                     Violation(filepath, algorithm, verdict,
                                                               outcome.returned))
                /\ UNCHANGED skipped_files

\* the body of the loop with a count that is not incremented for a file met
\* after a file that left a record
Iteration_after_violation(id) ==
    LET filename == FileCatalog[id].filename
        filepath == PathOf(FileCatalog[id].root, filename)
    IN  /\ walked' = Append(walked, id)
        /\ IF ~EndsWith(filename, DotXlsx)
           THEN UNCHANGED <<mpc, file_counts, violations, skipped_files, loads, open_workbooks>>
           ELSE IF ~is_valid_filename(filename)
           THEN /\ skipped_files' = Append(skipped_files, filepath)
                /\ UNCHANGED <<mpc, file_counts, violations, loads, open_workbooks>>
           ELSE \E algorithm \in {extract_algorithm_name(filepath, mpc = "multi")},
                   outcome \in {get_header_from_xlsx(filepath)} :
                /\ file_counts' = IF violations = <<>> THEN Increment(file_counts, algorithm)
                                  ELSE file_counts
                /\ loads' = [loads EXCEPT ![id] = @ + outcome.loads]
                /\ open_workbooks' = IF outcome.left_open THEN open_workbooks \cup {id}
                                     ELSE open_workbooks
                /\ IF outcome.raised
                   THEN /\ mpc' = "aborted"
                        /\ UNCHANGED violations
                   ELSE /\ mpc' = mpc
                        /\ \E verdict \in {Compare(outcome.returned)} :
                            violations' =
                                IF verdict.is_match THEN violations
                                ELSE AppendViolation(violations,
                                                     Violation(filepath, algorithm, verdict,
                                                               outcome.returned))
                /\ UNCHANGED skipped_files

\* the body of the loop without the test of the suffix: a file of any other
\* kind is put on the skip list
Iteration_skips_other_kinds(id) ==
    LET filename == FileCatalog[id].filename
        filepath == PathOf(FileCatalog[id].root, filename)
    IN  /\ walked' = Append(walked, id)
        /\ IF ~is_valid_filename(filename)
           THEN /\ skipped_files' = Append(skipped_files, filepath)
                /\ UNCHANGED <<mpc, file_counts, violations, loads, open_workbooks>>
           ELSE \E algorithm \in {extract_algorithm_name(filepath, mpc = "multi")},
                   outcome \in {get_header_from_xlsx(filepath)} :
                /\ file_counts' = Increment(file_counts, algorithm)
                /\ loads' = [loads EXCEPT ![id] = @ + outcome.loads]
                /\ open_workbooks' = IF outcome.left_open THEN open_workbooks \cup {id}
                                     ELSE open_workbooks
                /\ IF outcome.raised
                   THEN /\ mpc' = "aborted"
                        /\ UNCHANGED violations
                   ELSE /\ mpc' = mpc
                        /\ \E verdict \in {Compare(outcome.returned)} :
                            violations' =
                                IF verdict.is_match THEN violations
                                ELSE AppendViolation(violations,
                                                     Violation(filepath, algorithm, verdict,
                                                               outcome.returned))
                /\ UNCHANGED skipped_files

\* one pass through the body of the loop over the files, for the file id
Iteration(id) ==
    LET filename == FileCatalog[id].filename
        filepath == PathOf(FileCatalog[id].root, filename)
    IN  /\ walked' = Append(walked, id)
        /\ IF ~EndsWith(filename, DotXlsx)
           THEN UNCHANGED <<mpc, file_counts, violations, skipped_files, loads, open_workbooks>>
           ELSE IF ~is_valid_filename(filename)
           THEN /\ skipped_files' = Append(skipped_files, filepath)
                /\ UNCHANGED <<mpc, file_counts, violations, loads, open_workbooks>>
           ELSE \E algorithm \in {extract_algorithm_name(filepath, mpc = "multi")},
                   outcome \in {get_header_from_xlsx(filepath)} :
                /\ file_counts' = Increment(file_counts, algorithm)
                /\ loads' = [loads EXCEPT ![id] = @ + outcome.loads]
                /\ open_workbooks' = IF outcome.left_open THEN open_workbooks \cup {id}
                                     ELSE open_workbooks
                /\ IF outcome.raised
                   THEN \* no handler in scan_directory or main: the script ends
                        /\ mpc' = "aborted"
                        /\ UNCHANGED violations
                   ELSE /\ mpc' = mpc
                        /\ \E verdict \in {Compare(outcome.returned)} :
                            violations' =
                                IF verdict.is_match THEN violations
                                ELSE AppendViolation(violations,
                                                     Violation(filepath, algorithm, verdict,
                                                               outcome.returned))
                /\ UNCHANGED skipped_files

\* scan_directory visits the next file of the walk
VisitFile ==
    /\ mpc \in Sections
    /\ \E id \in NextFiles : Iteration(id)
    /\ UNCHANGED <<script, tree, dir_exists, all_results, total_files, total_violations,
                   status, printed, report_file, normVars, cmpVars, nameVars, readVars>>

\* the walk is over: scan_directory returns and main adds up
ReturnFromScan(section) ==
    /\ mpc = section
    /\ NextFiles = {}
    /\ total_files' = total_files + SumValues(file_counts)
    /\ total_violations' = total_violations + Len(violations)
    /\ all_results' = Append(all_results,
                             [section |-> SectionTitle(section),
                              file_counts |-> file_counts,
                              violations |-> violations,
                              skipped |-> skipped_files])
    /\ printed' = printed \o ResultLines(file_counts, skipped_files, violations)
    /\ mpc' = After(section)
    /\ UNCHANGED <<script, tree, dir_exists, walked, file_counts, violations, skipped_files,
                   loads, open_workbooks, status, report_file,
                   normVars, cmpVars, nameVars, readVars>>

\* main returning 0 whatever was found
ExitStatus_zero(violation_count) == 0

\* return 0 if total_violations == 0 else 1
ExitStatus(violation_count) == IF violation_count = 0 THEN 0 ELSE 1

\* main prints the summary, writes the report file and returns its exit status
Summarize ==
    /\ mpc = "summary"
    /\ printed' = printed \o SummaryLines(all_results, total_files, total_violations)
                        \o <<Line("Report saved to", ReportName)>>
    /\ report_file' = ReportLines(all_results, total_files, total_violations)
    /\ status' = ExitStatus(total_violations)
    /\ mpc' = "done"
    /\ UNCHANGED <<script, tree, dir_exists, walked, file_counts, violations, skipped_files,
                   loads, open_workbooks, all_results, total_files, total_violations,
                   normVars, cmpVars, nameVars, readVars>>

\* a workbook that was left open is released when the garbage collector
\* finds it, at a moment the script does not choose
CollectGarbage ==
    /\ \E id \in open_workbooks : open_workbooks' = open_workbooks \ {id}
    /\ UNCHANGED <<script, tree, dir_exists, mpc, walked, file_counts, violations,
                   skipped_files, loads, all_results, total_files, total_violations, status,
                   printed, report_file, normVars, cmpVars, nameVars, readVars>>

Next ==
    \/ \E section \in Sections : EnterScan(section)
    \/ \E section \in Sections : SkipScan(section)
    \/ VisitFile
    \/ \E section \in Sections : ReturnFromScan(section)
    \/ Summarize
    \/ CollectGarbage

Spec == Init /\ [][Next]_vars

-----------------------------------------------------------------------------
(* The file-name functions on names put together part by part *)

\* the parts a file name is put together from, each as the convention has it
\* or in a way that departs from it
NameParts == <<
    \* the part before the seed marker
    {<<"M", "O", "E", "A", "_", "A", "M", "O", "S", "A">>,
     <<"M", "O", "E", "A", "_", "A", "M", "O", "S", "A", "X">>,
     <<"M", "O", "E", "A", "_", "e", "N", "S", "G", "A", "I", "I">>,
     <<"M", "O", "E", "A", "_", "N", "S", "G", "A", "I", "I", "_", "e", "V", "S", "s">>,
     <<"M", "O", "E", "A", "_", "S", "P", "E", "A", "I", "I", "_", "m", "V", "S", "s">>,
     <<"M", "O", "E", "A", "_", "X", "Y", "Z", "_", "m", "V", "S", "s">>,
     <<"M", "O", "E", "A", "_", "X", "-", "Y">>,
     <<"M", "O", "E", "A", "_", "e", "V", "S", "s">>,
     <<"M", "O", "E", "A", "_">>,
     <<"M", "O", "E", "A", "_", "X", "Y", "Z", "_", "e", "V", "S", "s", "_", "m", "V", "S", "s">>,
     <<"M", "O", "E", "A", "_", "Q", "_", "r", "n", "d", "_", "Z">>,
     <<"M", "O", "E", "A", "_", "X", "_", "e", "V", "S", "s", "Y">>,
     <<"G", "A", "_", "S", "T", "T">>,
     <<>>,
     <<"a", "\n", "b">>},
    \* the seed marker
    {<<"_", "r", "n", "d", "_">>,
     <<"_", "r", "n", "d">>},
    \* the seed
    {<<"7">>,
     <<"1", "2">>,
     <<>>},
    \* the time of day
    {<<"_", "0", "1", "_", "0", "2", "_", "0", "3">>,
     <<"_", "1", "_", "0", "2", "_", "0", "3">>,
     <<"_", "0", "1", "_", "0", "2", "2", "_", "0", "3">>,
     <<"_", "0", "1", "_", "0", "2">>,
     <<"_", "0", "1", "_", "0", "2", "_", "0", "x">>},
    \* the solution marker
    {<<"_", "s", "o", "l", "_">>,
     <<"_", "s", "o", "l">>},
    \* the solution number
    {<<"1">>,
     <<"2", "5">>,
     <<>>},
    \* the extension
    {<<".", "x", "l", "s", "x">>,
     <<".", "x", "l", "s", "x", "\n">>,
     <<".", "x", "l", "s">>,
     <<".", "X", "L", "S", "X">>,
     <<".", "x", "l", "s", "x", ".", "b", "a", "k">>} >>

\* the directories a single-objective file may lie in: the folders of the
\* mapping, a folder in other letter case, a file prefix of the mapping, a
\* folder the mapping does not have, and the scanned directory itself
LowerGaAvgWait == Lower(DirGaAvgWait)
ParentDirs ==
    {SINGLE_OBJECTIVE_MAPPING[k].folder : k \in DOMAIN SINGLE_OBJECTIVE_MAPPING}
        \cup {LowerGaAvgWait, SINGLE_OBJECTIVE_MAPPING[1].prefixes[1], DirMisc, DirSingle}

NameInit ==
    /\ NormIdle
    /\ CmpIdle
    /\ ScanIdle
    /\ ReadIdle
    /\ built_name \in NameParts[1]
    /\ name_parts = 1
    /\ name_dir = <<>>
    /\ name_regime = "none"
    /\ name_valid = FALSE
    /\ name_algorithm = <<>>

\* the next part of the name is written
AppendPart ==
    /\ name_parts < Len(NameParts)
    /\ name_regime = "none"
    /\ \E part \in NameParts[name_parts + 1] : built_name' = built_name \o part
    /\ name_parts' = name_parts + 1
    /\ UNCHANGED <<name_dir, name_regime, name_valid, name_algorithm,
                   normVars, cmpVars, scanVars, readVars>>

\* scan_directory's two calls on a file of the multi-objective tree
ClassifyMulti ==
    /\ name_parts = Len(NameParts)
    /\ name_regime = "none"
    /\ name_regime' = "multi"
    /\ name_dir' = DirRun
    /\ name_valid' = is_valid_filename(built_name)
    /\ name_algorithm' = extract_algorithm_name(PathOf(<<DirMulti, DirRun>>, built_name), TRUE)
    /\ UNCHANGED <<built_name, name_parts, normVars, cmpVars, scanVars, readVars>>

\* scan_directory's two calls on a file of the single-objective tree
ClassifySingle ==
    /\ name_parts = Len(NameParts)
    /\ name_regime = "none"
    /\ name_regime' = "single"
    /\ \E dir \in ParentDirs :
        /\ name_dir' = dir
        /\ name_algorithm' =
              extract_algorithm_name(
                  PathOf(IF dir = DirSingle THEN <<DirSingle>> ELSE <<DirSingle, dir>>,
                         built_name),
                  FALSE)
    /\ name_valid' = is_valid_filename(built_name)
    /\ UNCHANGED <<built_name, name_parts, normVars, cmpVars, scanVars, readVars>>

NameNext ==
    \/ AppendPart
    \/ ClassifyMulti
    \/ ClassifySingle

SpecNames == NameInit /\ [][NameNext]_vars

-----------------------------------------------------------------------------
(* get_header_from_xlsx applied to bounded first rows *)

\* how many cells are appended to a first row
MaxRowCells == 3

\* the rows the sheets start with: none, the schema, the schema without its
\* last column and without its last two columns
StartRows ==
    { TextRow(SubSeq(EXPECTED_HEADERS, 1, n)) :
        n \in {0, Len(EXPECTED_HEADERS) - 2, Len(EXPECTED_HEADERS) - 1,
               Len(EXPECTED_HEADERS)} }

\* the cell values appended: an empty cell, texts that are empty, blank and
\* padded, numbers and truth values
CellValues ==
    { NoneCell, StrCell(<<>>), StrCell(<<" ">>), StrCell(<<" ", "a", "\t">>),
      IntCell(0), IntCell(7), BoolCell(FALSE), BoolCell(TRUE) }

ReadInit ==
    /\ NormIdle
    /\ CmpIdle
    /\ ScanIdle
    /\ NameIdle
    /\ sheet_row \in StartRows
    /\ appended = 0
    /\ read_result = NoneValue
    /\ rpc = "row"

\* one more cell in the first row of the sheet
AppendSheetCell(value) ==
    /\ rpc = "row"
    /\ appended < MaxRowCells
    /\ sheet_row' = Append(sheet_row, value)
    /\ appended' = appended + 1
    /\ UNCHANGED <<read_result, rpc, normVars, cmpVars, scanVars, nameVars>>

\* headers = get_header_from_xlsx(filepath) on the workbook
ReadHeaders ==
    /\ rpc = "row"
    /\ read_result' = get_header_from_xlsx(ProbePath).returned
    /\ rpc' = "read"
    /\ UNCHANGED <<sheet_row, appended, normVars, cmpVars, scanVars, nameVars>>

ReadNext ==
    \/ \E value \in CellValues : AppendSheetCell(value)
    \/ ReadHeaders

SpecReader == ReadInit /\ [][ReadNext]_vars

-----------------------------------------------------------------------------
(* Claims about normalization *)

\* C9: normalize_header is idempotent: normalizing the normalized form of any
\* input (None, the empty string, any string over whitespace, '%' and upper-
\* and lower-case letters) gives the normalized form again.
C9_NormalizeIdempotent ==
    npc = "twice" => norm2 = norm1

\* C9 witness: a string with upper-case letters, a whitespace run before a '%'
\* and outer whitespace has been normalized twice, and normalizing changed it.
C9_Witness ==
    /\ npc = "twice"
    /\ base = -1
    /\ header # None
    /\ norm1 # header
    /\ "A" \in Range(header)
    /\ \E i \in DOMAIN header : header[i] = "%" /\ i > 1 /\ IsSpace(header[i - 1])

\* C10: every case, internal-spacing, outer-spacing or percent-spacing variant
\* of a schema header normalizes to the same value as the schema header, and
\* find_header_in_expected returns the index of that schema header for it.
C10_VariantsNormalizeAlike ==
    (npc \in {"once", "twice"} /\ base >= 0) =>
        /\ norm1 = normalize_header(EXPECTED_HEADERS[base + 1])
        /\ found = base

\* C10 witness: a schema header that contains '%' was perturbed MaxEdits times
\* into a different string and the variant was then looked up.
C10_Witness ==
    /\ npc = "once"
    /\ base >= 0
    /\ edits = MaxEdits
    /\ header # EXPECTED_HEADERS[base + 1]
    /\ "%" \in Range(header)
    /\ Len(header) # Len(EXPECTED_HEADERS[base + 1])

-----------------------------------------------------------------------------
(* Claims about the two comparisons *)

\* the cells handed over, when a list was handed over
GivenCells == Cells(given.row)

\* the cell's normalized form equals no normalized schema entry
NoSchemaEntry(cell) ==
    LET norm == normalize_header(cell)
    IN  \A k \in DOMAIN NORMALIZED_EXPECTED : norm # NORMALIZED_EXPECTED[k]

ColumnCountMismatch(n) ==
    [kind |-> "Column count mismatch", expected |-> 8, got |-> n]

\* C1: a header of any length other than 8 (the empty one included) gets a
\* column count mismatch with expected 8 and the actual length from both
\* compare_headers and compare_headers_order, whatever its cells are, and no
\* unrecognized-column or order report.
C1_CountMismatchFirst ==
    (given.tag = "list" /\ Len(given.row) # 8) =>
        /\ cpc \in {"exact", "order"} =>
              exact_result = [is_match |-> FALSE,
                              difference |-> ColumnCountMismatch(Len(given.row))]
        /\ cpc = "order" =>
              order_result = [is_match |-> FALSE,
                              difference |-> ColumnCountMismatch(Len(given.row)),
                              details |-> NoDetails]

\* C1 witness: both comparisons ran on a header of 9 cells that holds a foreign
\* cell and has its first two columns the other way round.
C1_Witness ==
    /\ cpc = "order"
    /\ given.tag = "list"
    /\ Len(given.row) = 9
    /\ given.row[9] = FooId
    /\ given.row[1] = NumStyles
    /\ order_result.difference.kind = "Column count mismatch"

\* C1 witness for the empty header: both comparisons ran on it.
C1_WitnessEmpty ==
    /\ cpc = "order"
    /\ given.tag = "list"
    /\ given.row = <<>>

\* C2: for an 8-cell header with a cell whose normalized form is no schema
\* entry, compare_headers_order reports type 'unrecognized', lists exactly the
\* positions of those cells, each once and ascending, with the raw cell, and
\* reports no 'order' result.
C2_UnrecognizedOnly ==
    (cpc = "order" /\ given.tag = "list" /\ Len(given.row) = 8
        /\ \E cells \in {GivenCells} : \E p \in 1..8 : NoSchemaEntry(cells[p])) =>
        \A cells \in {GivenCells} :
        \A missing \in {{p \in 1..8 : NoSchemaEntry(cells[p])}} :
        LET listed == order_result.details.details
        IN  /\ ~order_result.is_match
            /\ order_result.details.type = "unrecognized"
            /\ order_result.difference.kind = "Unrecognized headers"
            /\ Len(listed) = Cardinality(missing)
            /\ {listed[k][1] + 1 : k \in DOMAIN listed} = missing
            /\ \A k \in 1..(Len(listed) - 1) : listed[k][1] < listed[k + 1][1]
            /\ \A k \in DOMAIN listed : listed[k][2] = cells[listed[k][1] + 1]
            /\ [k \in DOMAIN listed |-> order_result.difference.items[k].col]
                   = [k \in DOMAIN listed |-> listed[k][1] + 1]

\* C2 witness: the order check ran on an 8-cell header with one foreign cell
\* whose recognized cells are out of order.
C2_Witness ==
    /\ cpc = "order"
    /\ given.tag = "list"
    /\ Len(given.row) = 8
    /\ Cardinality({p \in 1..8 : given.row[p] >= FooId}) = 1
    /\ \E p \in 1..8 : given.row[p] < FooId /\ given.row[p] \div NumStyles # p - 1
    /\ order_result.details.type = "unrecognized"

\* the row holds every schema column exactly once (in some style)
IsPermutationRow ==
    /\ given.tag = "list"
    /\ Len(given.row) = 8
    /\ \A p \in 1..8 : given.row[p] < FooId
    /\ \A p, q \in 1..8 : p # q => given.row[p] \div NumStyles # given.row[q] \div NumStyles

\* the 1-based positions whose cell is another schema column than the schema
\* has there
Displaced == {p \in DOMAIN given.row : given.row[p] \div NumStyles # p - 1}

\* C3: for a header that is a permutation of the 8 schema entries, written in
\* any case and spacing, compare_headers_order returns an order violation
\* whose entries are exactly the displaced positions, and a match when the
\* permutation is the identity.
C3_PermutationOrder ==
    (cpc = "order" /\ IsPermutationRow) =>
        IF Displaced = {}
        THEN order_result = [is_match |-> TRUE, difference |-> NoDifference, details |-> NoDetails]
        ELSE LET issues == order_result.details.details
             IN  /\ ~order_result.is_match
                 /\ order_result.details.type = "order"
                 /\ Len(issues) = Cardinality(Displaced)
                 /\ {issues[k].position : k \in DOMAIN issues} = Displaced

\* C3 witness: the order check ran on a permutation that moves five columns
\* and keeps three, one of the kept ones not written as in the schema.
C3_Witness ==
    /\ cpc = "order"
    /\ IsPermutationRow
    /\ Cardinality(Displaced) = 5
    /\ \E p \in 1..8 : p \notin Displaced /\ given.row[p] % NumStyles # 0
    /\ order_result.details.type = "order"

\* C3 witness for the identity: the order check ran on the schema columns in
\* schema order, none of them written as in the schema.
C3_WitnessIdentity ==
    /\ cpc = "order"
    /\ IsPermutationRow
    /\ Displaced = {}
    /\ \E p \in 1..8 : given.row[p] % NumStyles # 0
    /\ order_result.is_match

\* C4: a header textually equal to the schema, position for position, is a
\* match for compare_headers, (True, None), and for compare_headers_order,
\* (True, None, None).
C4_SchemaConforms ==
    (given.tag = "list" /\ GivenCells = EXPECTED_HEADERS) =>
        /\ cpc \in {"exact", "order"} =>
              exact_result = [is_match |-> TRUE, difference |-> NoDifference]
        /\ cpc = "order" =>
              order_result = [is_match |-> TRUE, difference |-> NoDifference, details |-> NoDetails]

\* C4 witness: both comparisons ran on the schema itself.
C4_Witness ==
    /\ cpc = "order"
    /\ given.tag = "list"
    /\ GivenCells = EXPECTED_HEADERS
    /\ exact_result.is_match
    /\ order_result.is_match

\* C5: on an 8-cell header compare_headers reports a match iff every cell
\* equals the schema's textually (no normalization), and otherwise one report
\* that lists exactly the differing positions, each once, ascending and
\* 1-based, with the expected and the actual value.
C5_ExactMatch ==
    (cpc \in {"exact", "order"} /\ given.tag = "list" /\ Len(given.row) = 8) =>
        \A cells \in {GivenCells} :
        \A differing \in {{p \in 1..8 : cells[p] # EXPECTED_HEADERS[p]}} :
        LET items == exact_result.difference.items
        IN  /\ exact_result.is_match <=> differing = {}
            /\ exact_result.is_match => exact_result.difference = NoDifference
            /\ ~exact_result.is_match =>
                  /\ exact_result.difference.kind = "mismatches"
                  /\ Len(items) = Cardinality(differing)
                  /\ {items[k].col : k \in DOMAIN items} = differing
                  /\ \A k \in 1..(Len(items) - 1) : items[k].col < items[k + 1].col
                  /\ \A k \in DOMAIN items :
                        /\ items[k].expected = EXPECTED_HEADERS[items[k].col]
                        /\ items[k].got = cells[items[k].col]

\* C5 witness: compare_headers ran on a header whose only differences from the
\* schema are the case and spacing of two cells, and reported both positions.
C5_Witness ==
    /\ cpc = "exact"
    /\ given.tag = "list"
    /\ Len(given.row) = 8
    /\ \A p \in 1..8 : given.row[p] \div NumStyles = p - 1
    /\ Cardinality({p \in 1..8 : given.row[p] % NumStyles # 0}) = 2
    /\ ~exact_result.is_match
    /\ Len(exact_result.difference.items) = 2

\* C6: a read failure, the tuple (None, message), gets a non-matching 'Read
\* error' result that carries the message from both comparisons, never a
\* count mismatch, an unrecognized-column or an order report.
C6_ReadErrorFirst ==
    given.tag = "tuple" =>
        /\ cpc \in {"exact", "order"} =>
              exact_result = [is_match |-> FALSE,
                              difference |-> [kind |-> "Read error", message |-> given.message]]
        /\ cpc = "order" =>
              order_result = [is_match |-> FALSE,
                              difference |-> [kind |-> "Read error", message |-> given.message],
                              details |-> NoDetails]

\* C6 witness: both comparisons ran on a read failure.
C6_Witness ==
    /\ cpc = "order"
    /\ given.tag = "tuple"
    /\ given.message = "File is not a zip file"
    /\ exact_result.difference.kind = "Read error"
    /\ order_result.difference.kind = "Read error"

-----------------------------------------------------------------------------
(* Claims about the scan *)

\* the files of the catalog the scan checks: the .xlsx files whose name
\* follows the convention
MonitoredIds ==
    {id \in FileIds : /\ EndsWith(FileCatalog[id].filename, DotXlsx)
                      /\ is_valid_filename(FileCatalog[id].filename)}
IsMonitored(id) == id \in MonitoredIds

\* opening the file or reading its first row fails
ReadFails(id) == FileCatalog[id].content.kind # "workbook"

\* the algorithm each file of the catalog is counted under
Algorithms ==
    [id \in FileIds |-> extract_algorithm_name(PathOfFile(id), SectionOf(id) = "multi")]
AlgorithmOf(id) == Algorithms[id]

\* the one record a monitored file that cannot be read is to leave
ReadErrorRecord(id) ==
    LET message == FileCatalog[id].content.message
        common == [filepath |-> PathOfFile(id),
                   algorithm |-> AlgorithmOf(id),
                   difference |-> [kind |-> "Read error", message |-> message],
                   headers |-> TupleOf(message)]
    IN  IF script = "check_headers" THEN common
        ELSE [filepath |-> common.filepath, algorithm |-> common.algorithm,
              difference |-> common.difference, headers |-> common.headers,
              details |-> NoDetails]

\* the records a file leaves when it is looked at on its own
RecordsOfFile(id) ==
    IF ~IsMonitored(id) THEN <<>>
    ELSE IF ReadFails(id) THEN <<ReadErrorRecord(id)>>
    ELSE LET headers == Once(get_header_from_xlsx, PathOfFile(id)).returned
             verdict == Once(Compare, headers)
         IN  IF verdict.is_match THEN <<>>
             ELSE <<Violation(PathOfFile(id), AlgorithmOf(id), verdict, headers)>>

\* the records and the skipped paths of a walk, file by file
RECURSIVE RecordsOfWalk(_)
RecordsOfWalk(walk) ==
    IF walk = <<>> THEN <<>>
    ELSE RecordsOfWalk(SubSeq(walk, 1, Len(walk) - 1)) \o RecordsOfFile(walk[Len(walk)])

RECURSIVE SkippedOfWalk(_)
SkippedOfWalk(walk) ==
    IF walk = <<>> THEN <<>>
    ELSE SkippedOfWalk(SubSeq(walk, 1, Len(walk) - 1)) \o
         (IF EndsWith(FileCatalog[walk[Len(walk)]].filename, DotXlsx)
             /\ ~IsMonitored(walk[Len(walk)])
          THEN <<PathOfFile(walk[Len(walk)])>> ELSE <<>>)

\* the monitored files of a walk that cannot be read
FailedIn(walk) == {k \in DOMAIN walk : IsMonitored(walk[k]) /\ ReadFails(walk[k])}

\* C7: a failure while opening or reading a monitored file never aborts the
\* scan: no exception leaves get_header_from_xlsx, load_workbook is called
\* once on the file, the file leaves exactly one record, a read error with
\* the message and the tuple (None, message), and the counts, the records
\* and the skipped paths of the walk are those its files give one by one,
\* the files visited after the failure included.
C7_ReadFailureIsolated ==
    /\ mpc # "aborted"
    /\ \A id \in DOMAIN loads : loads[id] <= 1
    /\ mpc \in Sections =>
        \A walk \in {walked} :
            FailedIn(walk) # {} =>
                /\ \A k \in FailedIn(walk) :
                    /\ loads[walk[k]] = 1
                    /\ SelectSeq(violations, LAMBDA v : v.filepath = PathOfFile(walk[k]))
                          = <<ReadErrorRecord(walk[k])>>
                /\ \A k \in DOMAIN walk :
                    loads[walk[k]] = IF IsMonitored(walk[k]) THEN 1 ELSE 0
                /\ violations = RecordsOfWalk(walk)
                /\ skipped_files = SkippedOfWalk(walk)
                /\ DOMAIN file_counts =
                      {AlgorithmOf(walk[k]) : k \in {j \in DOMAIN walk : IsMonitored(walk[j])}}
                /\ \A algorithm \in DOMAIN file_counts :
                    file_counts[algorithm] =
                        Cardinality({k \in DOMAIN walk :
                                        /\ IsMonitored(walk[k])
                                        /\ AlgorithmOf(walk[k]) = algorithm})

\* a scan has met a file that cannot be read, then a conforming file, then
\* a file that violates the schema: three files counted, two records, the
\* first one the read error
C7_Witness ==
    /\ mpc \in Sections
    /\ \E k \in FailedIn(walked) : \E i \in DOMAIN walked, j \in DOMAIN walked :
        /\ k < i
        /\ k < j
        /\ IsMonitored(walked[i])
        /\ ~ReadFails(walked[i])
        /\ RecordsOfFile(walked[i]) = <<>>
        /\ IsMonitored(walked[j])
        /\ ~ReadFails(walked[j])
        /\ RecordsOfFile(walked[j]) # <<>>
    /\ SumValues(file_counts) = 3
    /\ Len(violations) = 2
    /\ violations[1].difference.kind = "Read error"
    /\ violations[2].difference.kind # "Read error"

\* C8: when scan_directory moves on to the next file, the workbook opened
\* for the file before has been released: no file the walk has left behind
\* has its workbook open.
C8_WorkbookReleased ==
    mpc \in Sections =>
        \A k \in 1..(Len(walked) - 1) : walked[k] \notin open_workbooks

\* the reader has come back from a file without reaching wb.close(), which
\* only the unreadable-sheet path does, and the walk has gone on
C8_LeftOpen ==
    /\ mpc \in Sections
    /\ Len(walked) >= 2
    /\ walked[1] \in open_workbooks
    /\ FileCatalog[walked[1]].content.kind = "unreadable sheet"
    /\ loads[walked[2]] = 1

\* on the path where the first row is read and on the path where
\* load_workbook fails, no workbook is left open
C8_ReleasedOtherwise ==
    \A id \in open_workbooks : FileCatalog[id].content.kind = "unreadable sheet"

-----------------------------------------------------------------------------
(* Claims about the file-name functions *)

\* the n characters of s from position i on, nothing if s does not have them
Slice(s, i, n) ==
    IF i >= 1 /\ n >= 0 /\ i + n - 1 <= Len(s) THEN SubSeq(s, i, i + n - 1) ELSE <<>>

\* s back to front
Reverse(s) == [k \in DOMAIN s |-> s[Len(s) + 1 - k]]

\* s is one or more digits
IsNumber(s) == s # <<>> /\ \A k \in DOMAIN s : s[k] \in Range(Digits)

\* s is '_' and exactly two digits
IsTwoDigitField(s) == Len(s) = 3 /\ s[1] = "_" /\ IsNumber(Tail(s))

\* the naming convention in the words of the documentation: one or more
\* arbitrary characters, '_rnd_', a number, three fields of '_' and two
\* digits, '_sol_', a number, '.xlsx', nothing before or after. i is the
\* length of the first part and n the length of the first number.
MatchesConvention(name) ==
    \E i \in 1..Len(name) :
        /\ Slice(name, i + 1, 5) = RndMarker
        /\ \E n \in 1..(Len(name) - i - 24) :
            LET k == Len(name) - i - n - 24
            IN  /\ IsNumber(Slice(name, i + 6, n))
                /\ IsTwoDigitField(Slice(name, i + 6 + n, 3))
                /\ IsTwoDigitField(Slice(name, i + 9 + n, 3))
                /\ IsTwoDigitField(Slice(name, i + 12 + n, 3))
                /\ Slice(name, i + 15 + n, 5) = SolMarker
                /\ IsNumber(Slice(name, i + 20 + n, k))
                /\ Slice(name, i + 20 + n + k, 5) = DotXlsx

HasNewline(name) == \E k \in DOMAIN name : name[k] = "\n"

\* C11: is_valid_filename(name) is true iff name is one or more arbitrary
\* characters, '_rnd_', digits, three '_dd' fields, '_sol_', digits and
\* '.xlsx', with nothing before or after.
C11_ValidIffConvention ==
    name_regime \in {"multi", "single"} => (name_valid <=> MatchesConvention(built_name))

\* a name that follows the convention up to '.xlsx' and goes on with a line
\* feed is accepted
C11_AcceptedWithLineFeed ==
    /\ name_regime = "multi"
    /\ name_valid
    /\ built_name[Len(built_name)] = "\n"
    /\ MatchesConvention(SubSeq(built_name, 1, Len(built_name) - 1))

\* a name that follows the convention and has a line feed in its first part
\* is rejected
C11_RejectedWithLineFeed ==
    /\ name_regime = "multi"
    /\ ~name_valid
    /\ MatchesConvention(built_name)
    /\ HasNewline(built_name)

\* on names without a line feed the function and the convention agree
C11_ValidIffConventionOneLine ==
    (name_regime \in {"multi", "single"} /\ ~HasNewline(built_name))
        => (name_valid <=> MatchesConvention(built_name))

\* name starts with prefix
HasPrefix(name, prefix) == Slice(name, 1, Len(prefix)) = prefix /\ Len(prefix) <= Len(name)

\* the known multi-objective names a file name starts with, by their place
\* in the list
KnownPrefixesOf(name) ==
    {k \in DOMAIN MULTI_OBJECTIVE_ALGORITHMS : HasPrefix(name, MULTI_OBJECTIVE_ALGORITHMS[k])}

\* C12: in the multi-objective tree a file name that starts with one of the
\* four known names, tried in the order MOEA_AMOSA, MOEA_eNSGAII,
\* MOEA_NSGAII, MOEA_SPEAII, is attributed to the first such name, whatever
\* follows it; only a name that starts with none of them gets what the
\* fallback pattern gives: a beginning of the name that starts with MOEA_,
\* or UNKNOWN.
C12_FirstKnownPrefix ==
    /\ Len(MULTI_OBJECTIVE_ALGORITHMS) = 4
    /\ name_regime = "multi" =>
        \A known \in {KnownPrefixesOf(built_name)} :
            IF known # {}
            THEN name_algorithm =
                    MULTI_OBJECTIVE_ALGORITHMS[CHOOSE k \in known : \A j \in known : k <= j]
            ELSE \/ name_algorithm = UNKNOWN
                 \/ /\ HasPrefix(built_name, name_algorithm)
                    /\ HasPrefix(name_algorithm, MoeaPrefix)
                    /\ Len(name_algorithm) > Len(MoeaPrefix)

\* a name that goes on after MOEA_AMOSA before '_rnd_', so that the fallback
\* pattern alone would give a longer name, is attributed to MOEA_AMOSA
C12_Witness ==
    /\ name_regime = "multi"
    /\ name_valid
    /\ HasPrefix(built_name, MULTI_OBJECTIVE_ALGORITHMS[1] \o <<"X">> \o RndMarker)
    /\ name_algorithm = MULTI_OBJECTIVE_ALGORITHMS[1]
    /\ FallbackLengths(built_name) # {}

\* the fallback pattern is what attributes a name no known name begins
C12_WitnessFallback ==
    /\ name_regime = "multi"
    /\ name_valid
    /\ KnownPrefixesOf(built_name) = {}
    /\ name_algorithm = SubSeq(built_name, 1, Len(MoeaPrefix) + 3)

\* the folders of the single-objective mapping
MappingFolders ==
    {SINGLE_OBJECTIVE_MAPPING[k].folder : k \in DOMAIN SINGLE_OBJECTIVE_MAPPING}

\* C13: in the single-objective tree the algorithm is the name of the
\* directory the file lies in, unchanged, iff it is one of the 13 folders of
\* SINGLE_OBJECTIVE_MAPPING, and UNKNOWN otherwise, whatever the file is
\* called.
C13_ParentFolderOnly ==
    /\ Cardinality(MappingFolders) = 13
    /\ name_regime = "single" =>
        name_algorithm = IF name_dir \in MappingFolders THEN name_dir ELSE UNKNOWN

\* a file whose name starts with a known multi-objective name, and with no
\* prefix the mapping lists, lies in GA_AvgWait and is attributed to it
C13_Witness ==
    /\ name_regime = "single"
    /\ name_valid
    /\ name_dir = DirGaAvgWait
    /\ name_algorithm = DirGaAvgWait
    /\ HasPrefix(built_name, MULTI_OBJECTIVE_ALGORITHMS[1])

\* GA_STT_rnd_..., in a directory named like the prefix and in a directory
\* that differs from a folder in letter case only, is UNKNOWN
C13_WitnessUnknown ==
    /\ name_regime = "single"
    /\ name_valid
    /\ name_dir \in {LowerGaAvgWait, SINGLE_OBJECTIVE_MAPPING[1].prefixes[1]}
    /\ HasPrefix(built_name, SINGLE_OBJECTIVE_MAPPING[1].prefixes[1])
    /\ name_algorithm = UNKNOWN

-----------------------------------------------------------------------------
(* Claims about the scan: what a file leaves behind *)

\* the .xlsx files of the catalog whose name departs from the convention,
\* and those whose name follows it
RejectedIds ==
    {id \in FileIds : /\ HasPrefix(Reverse(FileCatalog[id].filename), Reverse(DotXlsx))
                      /\ ~MatchesConvention(FileCatalog[id].filename)}
AcceptedIds ==
    {id \in FileIds : /\ HasPrefix(Reverse(FileCatalog[id].filename), Reverse(DotXlsx))
                      /\ MatchesConvention(FileCatalog[id].filename)}

\* the places of a walk that hold a file of a set
PlacesOf(walk, ids) == {k \in DOMAIN walk : walk[k] \in ids}

\* C14: an .xlsx file whose name fails is_valid_filename is put on the skip
\* list, once, and nothing else happens for it: load_workbook is never
\* called on it, no record has its path, and the counts add up to the
\* number of files with a conforming name, so none was incremented for it.
C14_SkippedUntouched ==
    mpc \in Sections =>
        \A walk \in {walked} :
            /\ \A k \in PlacesOf(walk, RejectedIds) :
                /\ Len(SelectSeq(skipped_files, LAMBDA p : p = PathOfFile(walk[k]))) = 1
                /\ loads[walk[k]] = 0
                /\ \A v \in DOMAIN violations : violations[v].filepath # PathOfFile(walk[k])
            /\ Len(skipped_files) = Cardinality(PlacesOf(walk, RejectedIds))
            /\ SumValues(file_counts) = Cardinality(PlacesOf(walk, AcceptedIds))

\* the walk has skipped a file and gone on to a file it counts
C14_Witness ==
    /\ mpc \in Sections
    /\ Len(walked) >= 2
    /\ walked[1] \in RejectedIds
    /\ walked[2] \in AcceptedIds
    /\ skipped_files = <<PathOfFile(walked[1])>>
    /\ SumValues(file_counts) = 1
    /\ loads[walked[1]] = 0
    /\ loads[walked[2]] = 1

\* what get_header_from_xlsx returns for each file of the catalog with a
\* conforming name
Returned == [id \in AcceptedIds |-> get_header_from_xlsx(PathOfFile(id)).returned]

\* the verdict of the running script on a file
VerdictOf(id) == Once(Compare, Returned[id])

\* the numbers of a set in rising order
RECURSIVE Ascending(_)
Ascending(numbers) ==
    IF numbers = {} THEN <<>>
    ELSE LET least == CHOOSE n \in numbers : \A other \in numbers : n <= other
         IN  <<least>> \o Ascending(numbers \ {least})

\* the scan that returned last and the walk it made
LastResult == all_results[Len(all_results)]

\* C15: when scan_directory has returned, its violation list has exactly one
\* record for each monitored file whose verdict is not conforming, none for
\* a conforming file, in the order in which the walk met the files; a
\* record holds the path, the algorithm, the description of the verdict and
\* what the reader returned (the headers, or the tuple of the read failure).
C15_RecordsInDiscoveryOrder ==
    (mpc \in {"between", "summary", "done"} /\ all_results # <<>>) =>
        \A records \in {LastResult.violations} :
          \A places \in {Ascending({k \in PlacesOf(walked, AcceptedIds) :
                                        ~VerdictOf(walked[k]).is_match})} :
            /\ Len(records) = Len(places)
            /\ \A j \in DOMAIN places :
                \A id \in {walked[places[j]]} :
                    /\ records[j].filepath = PathOfFile(id)
                    /\ records[j].algorithm = Algorithms[id]
                    /\ records[j].difference = VerdictOf(id).difference
                    /\ records[j].headers = Returned[id]

\* a scan has returned with two records, the first for the file the walk met
\* first, after it also met a conforming file, which has no record
C15_Witness ==
    /\ mpc \in {"between", "summary", "done"}
    /\ all_results # <<>>
    /\ Len(LastResult.violations) = 2
    /\ LastResult.violations[1].filepath # LastResult.violations[2].filepath
    /\ \E k \in DOMAIN walked :
        /\ walked[k] \in AcceptedIds
        /\ VerdictOf(walked[k]).is_match
    /\ \E i \in DOMAIN walked, j \in DOMAIN walked :
        /\ i < j
        /\ LastResult.violations[1].filepath = PathOfFile(walked[i])
        /\ LastResult.violations[2].filepath = PathOfFile(walked[j])
        /\ LastResult.violations[1].headers.tag = "list"
        /\ LastResult.violations[2].headers.tag = "tuple"

\* the places of a walk that hold a monitored file with a given content
PlacesWith(walk, content) ==
    {k \in PlacesOf(walk, AcceptedIds) : FileCatalog[walk[k]].content = content}

\* the monitored files of the walk are three: a conforming one, one with
\* columns 6 and 7 the other way round, and one that is no workbook
ThreeFileScenario ==
    /\ Cardinality(PlacesOf(walked, AcceptedIds)) = 3
    /\ PlacesWith(walked, Workbook(ConformingRow)) # {}
    /\ PlacesWith(walked, Workbook(SwappedRow)) # {}
    /\ PlacesWith(walked, NotAWorkbook) # {}

\* the kinds of the differences of a list of records
KindsOf(records) == {records[j].difference.kind : j \in DOMAIN records}

\* C16: every monitored file is counted, the ones that cannot be read too:
\* at any moment of a scan the per-algorithm counts add up to the number of
\* monitored files visited, and each visited monitored file has a count
\* under its algorithm. A tree with a conforming file, a file with columns
\* 6 and 7 swapped and a corrupt file gives a total of 3 and 2 violations,
\* in check_headers_order an order violation and a read error.
C16_CountsCoverUnreadable ==
    /\ mpc \in Sections =>
        /\ SumValues(file_counts) = Cardinality(PlacesOf(walked, AcceptedIds))
        /\ \A k \in PlacesOf(walked, AcceptedIds) :
            /\ Algorithms[walked[k]] \in DOMAIN file_counts
            /\ file_counts[Algorithms[walked[k]]] >= 1
    /\ (mpc \in {"between", "summary", "done"} /\ all_results # <<>> /\ ThreeFileScenario) =>
        /\ SumValues(LastResult.file_counts) = 3
        /\ Len(LastResult.violations) = 2
        /\ script = "check_headers_order" =>
              KindsOf(LastResult.violations) = {"Order violations", "Read error"}

\* check_headers_order has scanned the three files of the scenario
C16_Witness ==
    /\ script = "check_headers_order"
    /\ mpc = "between"
    /\ ThreeFileScenario
    /\ total_files = 3
    /\ total_violations = 2

\* two files of one algorithm, one of them unreadable later in the walk,
\* give that algorithm a count of two
C16_WitnessTwo ==
    /\ mpc \in Sections
    /\ \E algorithm \in DOMAIN file_counts : file_counts[algorithm] = 2
    /\ \E k \in PlacesOf(walked, AcceptedIds) : ReadFails(walked[k])

-----------------------------------------------------------------------------
(* Claims about main *)

\* the number of violation records of all the scans that returned
RECURSIVE RecordCount(_)
RecordCount(results) ==
    IF results = <<>> THEN 0
    ELSE Len(Head(results).violations) + RecordCount(Tail(results))

\* C17: main returns 0 iff the scans of the multi-objective and of the
\* single-objective tree have no violation record between them, and a
\* non-zero status otherwise; a tree whose directory does not exist is not
\* scanned and adds no record.
C17_ExitStatus ==
    /\ mpc # "done" => status = -1
    /\ mpc = "done" =>
        /\ status = 0 <=> RecordCount(all_results) = 0
        /\ status # 0 <=> RecordCount(all_results) > 0
        /\ Len(all_results) = Cardinality({section \in Sections : dir_exists[section]})
        /\ \A section \in Sections :
            ~dir_exists[section] =>
                \A j \in DOMAIN all_results : all_results[j].section # SectionTitle(section)

\* main has ended with a non-zero status: the multi-objective directory is
\* missing and the single-objective scan has a record
C17_Witness ==
    /\ mpc = "done"
    /\ status = 1
    /\ ~dir_exists["multi"]
    /\ Len(all_results) = 1
    /\ all_results[1].violations # <<>>

\* main has ended with status 0 after both scans counted files
C17_WitnessZero ==
    /\ mpc = "done"
    /\ status = 0
    /\ Len(all_results) = 2
    /\ all_results[1].file_counts # <<>>
    /\ all_results[2].file_counts # <<>>

\* the lines from the heading SUMMARY on
SummaryPart(lines) ==
    LET headings == {k \in DOMAIN lines : lines[k].text = "SUMMARY"}
    IN  IF headings = {} THEN <<>>
        ELSE SubSeq(lines, CHOOSE k \in headings : TRUE, Len(lines))

\* some line has one of the texts, and holds the value
Reports(lines, texts, value) ==
    \E k \in DOMAIN lines : lines[k].text \in texts /\ lines[k].value = value

\* the texts of a line that tells how many files were processed, skipped for
\* their name, in violation, and of the line that tells there is no violation
ProcessedTexts == {"Total files processed"}
SkippedTexts == {"Skipped files (naming convention)", "Total skipped files"}
ViolationTexts == {"Total violations found", "Total order violations found"}
ConfirmationTexts ==
    {"No violations found! All headers match the expected format.",
     "No order violations found! All headers are in the correct order."}

\* the files all the scans counted, and the files they skipped
RECURSIVE CountedBy(_)
CountedBy(results) ==
    IF results = <<>> THEN 0
    ELSE SumValues(Head(results).file_counts) + CountedBy(Tail(results))

RECURSIVE SkippedBy(_)
SkippedBy(results) ==
    IF results = <<>> THEN 0
    ELSE Len(Head(results).skipped) + SkippedBy(Tail(results))

\* C18: on every run of main, whether or not the two directories exist, the
\* summary, printed and written to the report file, tells the total of the
\* files processed, the total of the files skipped for their name and the
\* total of the violations, and with no violation it holds a line that says
\* so.
C18_SummaryReportsTotals ==
    mpc = "done" =>
        \A lines \in {SummaryPart(printed), SummaryPart(report_file)} :
            /\ Reports(lines, ProcessedTexts, CountedBy(all_results))
            /\ Reports(lines, SkippedTexts, SkippedBy(all_results))
            /\ Reports(lines, ViolationTexts, RecordCount(all_results))
            /\ RecordCount(all_results) = 0 =>
                  \E k \in DOMAIN lines : lines[k].text \in ConfirmationTexts

\* a run has skipped a file for its name and has ended, and no line of the
\* summary names the skipped files
C18_SkippedNotSummarized ==
    /\ mpc = "done"
    /\ SkippedBy(all_results) = 1
    /\ \A k \in DOMAIN SummaryPart(printed) :
          SummaryPart(printed)[k].text \notin SkippedTexts
    /\ \A k \in DOMAIN SummaryPart(report_file) :
          SummaryPart(report_file)[k].text \notin SkippedTexts

\* a run that found neither directory has ended, and no line it printed or
\* wrote names the skipped files
C18_SkippedNowhere ==
    /\ mpc = "done"
    /\ all_results = <<>>
    /\ \A k \in DOMAIN printed : printed[k].text \notin SkippedTexts
    /\ \A k \in DOMAIN report_file : report_file[k].text \notin SkippedTexts

\* the summary always tells the files processed and the violations, and
\* confirms a run without violations
C18_SummaryOtherTotals ==
    mpc = "done" =>
        \A lines \in {SummaryPart(printed), SummaryPart(report_file)} :
            /\ Reports(lines, ProcessedTexts, CountedBy(all_results))
            /\ Reports(lines, ViolationTexts, RecordCount(all_results))
            /\ RecordCount(all_results) = 0 <=>
                  \E k \in DOMAIN lines : lines[k].text \in ConfirmationTexts

\* a cell of the sheet that holds nothing, or a text of whitespace alone
BlankCell(value) ==
    IF value.type = "NoneType" THEN TRUE
    ELSE IF value.type = "str" THEN \A p \in DOMAIN value.str : IsSpace(value.str[p])
    ELSE FALSE

\* the cells of the row from position n on are all blank
BlankFrom(row, n) == \A p \in DOMAIN row : p >= n => BlankCell(row[p])

\* the row starts with the names of the schema, as they are written there
StartsWithSchema(row) ==
    /\ Len(row) >= Len(EXPECTED_HEADERS)
    /\ SubSeq(row, 1, Len(EXPECTED_HEADERS)) = TextRow(EXPECTED_HEADERS)

\* the row has been read and a list came back
HasRead == rpc = "read" /\ read_result.tag = "list"

\* both scripts report the list as a wrong number of columns
CountMismatch(headers) ==
    /\ compare_headers(headers, EXPECTED_HEADERS).difference.kind = "Column count mismatch"
    /\ compare_headers_order(headers, EXPECTED_HEADERS).difference.kind
          = "Column count mismatch"

\* the texts of the cells of the row up to its last cell whose text is not empty
TextsToLastNonEmpty(row) ==
    LET texts == [p \in DOMAIN row |-> CellText(row[p])]
        filled == {p \in DOMAIN texts : texts[p] # <<>>}
    IN  IF filled = {} THEN <<>>
        ELSE SubSeq(texts, 1, CHOOSE p \in filled : \A q \in filled : q <= p)

\* C19 as stated: the list get_header_from_xlsx returns has the trailing empty
\* cells of the first row removed: it is empty or its last element is not the
\* empty string; the 8 names of the schema followed by blank cells give the 8
\* names; and a first row whose 8th cell is blank gives at most 7 values, a
\* column count mismatch.
C19_TrailingEmptyRemoved ==
    rpc = "read" =>
        /\ read_result.tag = "list"
        /\ read_result.cells = <<>> \/ read_result.cells[Len(read_result.cells)] # <<>>
        /\ StartsWithSchema(sheet_row) /\ BlankFrom(sheet_row, Len(EXPECTED_HEADERS) + 1)
              => read_result.cells = EXPECTED_HEADERS
        /\ Len(sheet_row) >= Len(EXPECTED_HEADERS) /\ BlankCell(sheet_row[Len(EXPECTED_HEADERS)])
              => /\ Len(read_result.cells) <= Len(EXPECTED_HEADERS) - 1
                 /\ CountMismatch(read_result)

\* a first row whose 8th cell is blank and whose 9th is not has been read, and
\* the list has 9 values
C19_BlankEighthBeforeFilledNinth ==
    /\ HasRead
    /\ Len(sheet_row) = Len(EXPECTED_HEADERS) + 1
    /\ BlankCell(sheet_row[Len(EXPECTED_HEADERS)])
    /\ ~BlankCell(sheet_row[Len(EXPECTED_HEADERS) + 1])
    /\ Len(read_result.cells) = Len(EXPECTED_HEADERS) + 1

\* C19 amended: the list get_header_from_xlsx returns is the texts of the
\* cells of the first row up to the last cell whose text is not empty: it is
\* empty or its last element is not the empty string; the 8 names of the
\* schema followed by blank cells give the 8 names; and a first row whose 8th
\* cell and every cell after it are blank gives at most 7 values, a column
\* count mismatch.
C19_TrailingEmptyRemovedAmended ==
    rpc = "read" =>
        /\ read_result.tag = "list"
        /\ read_result.cells = TextsToLastNonEmpty(sheet_row)
        /\ read_result.cells = <<>> \/ read_result.cells[Len(read_result.cells)] # <<>>
        /\ StartsWithSchema(sheet_row) /\ BlankFrom(sheet_row, Len(EXPECTED_HEADERS) + 1)
              => read_result.cells = EXPECTED_HEADERS
        /\ Len(sheet_row) >= Len(EXPECTED_HEADERS) /\ BlankFrom(sheet_row, Len(EXPECTED_HEADERS))
              => /\ Len(read_result.cells) <= Len(EXPECTED_HEADERS) - 1
                 /\ CountMismatch(read_result)

\* the schema followed by two blank cells has been read and gave the 8 names
C19_Witness ==
    /\ HasRead
    /\ StartsWithSchema(sheet_row)
    /\ Len(sheet_row) = Len(EXPECTED_HEADERS) + 2
    /\ BlankFrom(sheet_row, Len(EXPECTED_HEADERS) + 1)
    /\ read_result.cells = EXPECTED_HEADERS

\* a row of 9 cells whose 7th, 8th and 9th cell are blank has been read and
\* gave 6 values, a column count mismatch
C19_WitnessBlankEighth ==
    /\ HasRead
    /\ Len(sheet_row) = Len(EXPECTED_HEADERS) + 1
    /\ BlankFrom(sheet_row, Len(EXPECTED_HEADERS) - 1)
    /\ Len(read_result.cells) = Len(EXPECTED_HEADERS) - 2
    /\ CountMismatch(read_result)

\* C20: no element of the list get_header_from_xlsx returns is the empty
\* string, whatever the first row, a blank cell between two cells that are
\* not blank included.
C20_NoEmptyElement ==
    rpc = "read" =>
        /\ read_result.tag = "list"
        /\ \A p \in DOMAIN read_result.cells : read_result.cells[p] # <<>>

\* a row with a blank cell between two cells that are not blank has been read,
\* and the list holds the empty string at the place of the blank cell
C20_InteriorBlankKept ==
    /\ HasRead
    /\ \E p \in DOMAIN sheet_row :
          /\ 1 < p /\ p < Len(sheet_row)
          /\ BlankCell(sheet_row[p])
          /\ ~BlankCell(sheet_row[p - 1]) /\ ~BlankCell(sheet_row[p + 1])
          /\ Len(read_result.cells) = Len(sheet_row)
          /\ read_result.cells[p] = <<>>
          /\ read_result.cells[p - 1] # <<>> /\ read_result.cells[p + 1] # <<>>

\* C20 amended: the list get_header_from_xlsx returns holds, in order and in
\* place, the texts of the cells of the first row up to the last one that is
\* not empty: its last element is never the empty string, and a blank cell
\* before that one stays in the list as the empty string.
C20_BlankKeptInPlace ==
    rpc = "read" =>
        /\ read_result.tag = "list"
        /\ Len(read_result.cells) <= Len(sheet_row)
        /\ \A p \in DOMAIN read_result.cells :
              /\ read_result.cells[p] = CellText(sheet_row[p])
              /\ BlankCell(sheet_row[p]) => read_result.cells[p] = <<>>
              /\ read_result.cells[p] = <<>> =>
                    \E q \in DOMAIN read_result.cells : q > p /\ read_result.cells[q] # <<>>
        /\ \A p \in DOMAIN sheet_row :
              p > Len(read_result.cells) => CellText(sheet_row[p]) = <<>>

-----------------------------------------------------------------------------
(* Claims about the entries of an order violation *)

\* the order check ran on 8 cells that are all schema columns in some style
AllRecognizedRow ==
    /\ cpc = "order"
    /\ given.tag = "list"
    /\ Len(given.row) = Len(EXPECTED_HEADERS)
    /\ \A p \in DOMAIN given.row : given.row[p] < FooId

\* the 0-based schema index of the column written in cell p of the row
SchemaIndexAt(p) == given.row[p] \div NumStyles

\* C21: every entry of an order violation, for the 0-based position i whose
\* cell has the schema index e # i, has position i + 1, found the raw cell at
\* i, found_should_be_at e + 1 and expected the raw schema value at i; the
\* entries are in ascending position order, exactly one per violating
\* position.
C21_OrderEntries ==
    (AllRecognizedRow /\ Displaced # {}) =>
        \A cells \in {GivenCells} :
        LET issues == order_result.details.details
        IN  /\ order_result.details.type = "order"
            /\ Len(issues) = Cardinality(Displaced)
            /\ {issues[k].position : k \in DOMAIN issues} = Displaced
            /\ \A k \in 1..(Len(issues) - 1) : issues[k].position < issues[k + 1].position
            /\ \A k \in DOMAIN issues :
                  /\ DOMAIN issues[k] = {"position", "found", "expected", "found_should_be_at"}
                  /\ issues[k].found = cells[issues[k].position]
                  /\ issues[k].found_should_be_at = SchemaIndexAt(issues[k].position) + 1
                  /\ issues[k].found_should_be_at # issues[k].position
                  /\ issues[k].expected = EXPECTED_HEADERS[issues[k].position]
            /\ order_result.difference = [kind |-> "Order violations", items |-> issues]

\* C21 witness: the order check ran on a row with two displaced columns, one
\* of them not written as in the schema, and reported them.
C21_Witness ==
    /\ AllRecognizedRow
    /\ Cardinality(Displaced) = 2
    /\ \E p \in Displaced : given.row[p] % NumStyles # 0
    /\ order_result.details.type = "order"
    /\ Len(order_result.details.details) = 2

-----------------------------------------------------------------------------
(* Claims about the normalized schema *)

\* the 1-based schema positions whose normalized entry equals the normalized
\* form of a cell
MatchingEntries(cell) ==
    {i \in DOMAIN NORMALIZED_EXPECTED : NORMALIZED_EXPECTED[i] = normalize_header(cell)}

\* C22: the 8 entries of NORMALIZED_EXPECTED are pairwise distinct, so every
\* cell value matches at most one schema index, NORM_TO_EXPECTED has 8 keys,
\* and find_header_in_expected of the i-th schema name is i.
C22_SchemaDistinct ==
    /\ Len(NORMALIZED_EXPECTED) = 8
    /\ \A i, j \in DOMAIN NORMALIZED_EXPECTED :
          i # j => NORMALIZED_EXPECTED[i] # NORMALIZED_EXPECTED[j]
    /\ Cardinality(DOMAIN NORM_TO_EXPECTED) = 8
    /\ \A i \in DOMAIN EXPECTED_HEADERS :
          NORM_TO_EXPECTED[NORMALIZED_EXPECTED[i]] = EXPECTED_HEADERS[i]
    /\ npc \in {"once", "twice"} =>
          /\ Cardinality(MatchingEntries(header)) <= 1
          /\ found # -1 => MatchingEntries(header) = {found + 1}
          /\ found = -1 => MatchingEntries(header) = {}
          /\ (base >= 0 /\ header = EXPECTED_HEADERS[base + 1]) => found = base

\* C22 witness: find_header_in_expected ran on the last name of the schema, as
\* written there, and gave its index.
C22_Witness ==
    /\ npc = "once"
    /\ header = EXPECTED_HEADERS[Len(EXPECTED_HEADERS)]
    /\ found = Len(EXPECTED_HEADERS) - 1

\* C22 witness for a cell that is no schema name: no index matches.
C22_WitnessNoMatch ==
    /\ npc = "once"
    /\ header = <<"a", "%">>
    /\ found = -1

-----------------------------------------------------------------------------
(* Claims about the fallback pattern of extract_algorithm_name *)

\* the places of a '_rnd_' in the name that has before it 'MOEA_' and then
\* one or more word characters and nothing else
RndPlaces(name) ==
    {k \in DOMAIN name :
        /\ HasPrefix(name, MoeaPrefix)
        /\ k > Len(MoeaPrefix) + 1
        /\ Slice(name, k, Len(RndMarker)) = RndMarker
        /\ \A j \in (Len(MoeaPrefix) + 1)..(k - 1) : IsWord(name[j])}

\* text without the qualifier '_eVSs' or '_mVSs' it ends with, if one stands
\* there after 'MOEA_' and one or more characters
WithoutQualifier(text) ==
    LET rest == Len(text) - Len(QualifierE)
    IN  IF rest > Len(MoeaPrefix)
        THEN IF Slice(text, rest + 1, Len(QualifierE)) \in {QualifierE, QualifierM}
             THEN Slice(text, 1, rest)
             ELSE text
        ELSE text

\* C23: in the multi-objective tree, for a file name that starts with none
\* of the 4 known names: if it starts with 'MOEA_', one or more word
\* characters and then (after '_eVSs' or '_mVSs' or directly) '_rnd_',
\* extract_algorithm_name returns the text before the first such '_rnd_'
\* without the qualifier directly before it; in every other case it returns
\* 'UNKNOWN'. It returns a string for every name.
C23_FallbackPattern ==
    /\ Len(QualifierE) = Len(QualifierM)
    /\ name_regime = "multi" =>
        /\ name_algorithm = UNKNOWN
              \/ (name_algorithm # <<>> /\ HasPrefix(built_name, name_algorithm))
        /\ KnownPrefixesOf(built_name) = {} =>
              \A places \in {RndPlaces(built_name)} :
                  IF places = {}
                  THEN name_algorithm = UNKNOWN
                  ELSE name_algorithm =
                          WithoutQualifier(
                              Slice(built_name, 1,
                                    (CHOOSE k \in places : \A j \in places : k <= j) - 1))

\* a name with a qualifier before '_rnd_' is attributed to what stands before
\* the qualifier
C23_Witness ==
    /\ name_regime = "multi"
    /\ name_valid
    /\ KnownPrefixesOf(built_name) = {}
    /\ HasPrefix(built_name, <<"M", "O", "E", "A", "_", "X", "Y", "Z">> \o QualifierM \o RndMarker)
    /\ name_algorithm = <<"M", "O", "E", "A", "_", "X", "Y", "Z">>

\* a name with a character that is no word character before '_rnd_' is
\* attributed to UNKNOWN
C23_WitnessUnknown ==
    /\ name_regime = "multi"
    /\ name_valid
    /\ HasPrefix(built_name, <<"M", "O", "E", "A", "_", "X", "-", "Y">> \o RndMarker)
    /\ name_algorithm = UNKNOWN

\* a name that is 'MOEA' and a qualifier before '_rnd_' keeps the qualifier
C23_WitnessQualifierOnly ==
    /\ name_regime = "multi"
    /\ name_valid
    /\ HasPrefix(built_name, MoeaPrefix \o <<"e", "V", "S", "s">> \o RndMarker)
    /\ name_algorithm = MoeaPrefix \o <<"e", "V", "S", "s">>

-----------------------------------------------------------------------------
(* Claims about headers with a column written twice *)

\* the pairs of positions of the row whose cells are the same schema column
DuplicatePairs ==
    {pair \in (DOMAIN given.row) \X (DOMAIN given.row) :
        /\ pair[1] < pair[2]
        /\ SchemaIndexAt(pair[1]) = SchemaIndexAt(pair[2])}

\* the entries of the order violation for a position
EntriesAt(p) ==
    {k \in DOMAIN order_result.details.details :
        order_result.details.details[k].position = p}

\* C24 as stated: for an 8-cell header of recognized cells two of which
\* normalize to the same schema entry, both cells get the same expected index
\* and the order violation holds two position entries, one for each of the
\* two cells, whose found_should_be_at are equal.
C24_DuplicateEntries ==
    AllRecognizedRow =>
        \A cells \in {GivenCells} :
        \A pair \in DuplicatePairs :
            /\ find_header_in_expected(cells[pair[1]]) = find_header_in_expected(cells[pair[2]])
            /\ order_result.details.type = "order"
            /\ \E k1 \in EntriesAt(pair[1]), k2 \in EntriesAt(pair[2]) :
                  order_result.details.details[k1].found_should_be_at
                      = order_result.details.details[k2].found_should_be_at

\* a header whose second cell repeats the first column, which stands in its
\* place, was checked: the order violation has an entry for the second cell
\* and none for the first
C24_DuplicateInPlace ==
    /\ AllRecognizedRow
    /\ SchemaIndexAt(1) = 0
    /\ SchemaIndexAt(2) = 0
    /\ order_result.details.type = "order"
    /\ EntriesAt(1) = {}
    /\ Cardinality(EntriesAt(2)) = 1

\* C24 amended: for an 8-cell header of recognized cells two of which
\* normalize to the same schema entry, both cells get the same expected index
\* e and the result is an order violation that holds exactly one entry, with
\* found_should_be_at e + 1, for each of the two cells that does not stand at
\* position e + 1, and none for one that does; at least one of the two has an
\* entry, and when both have one their found_should_be_at are equal.
C24_DuplicateEntriesAmended ==
    AllRecognizedRow =>
        \A cells \in {GivenCells} :
        \A pair \in DuplicatePairs :
        \A e \in {SchemaIndexAt(pair[1])} :
            /\ find_header_in_expected(cells[pair[1]]) = e
            /\ find_header_in_expected(cells[pair[2]]) = e
            /\ ~order_result.is_match
            /\ order_result.details.type = "order"
            /\ \A r \in {pair[1], pair[2]} :
                  /\ Cardinality(EntriesAt(r)) = (IF r = e + 1 THEN 0 ELSE 1)
                  /\ \A k \in EntriesAt(r) :
                        order_result.details.details[k].found_should_be_at = e + 1
            /\ EntriesAt(pair[1]) \cup EntriesAt(pair[2]) # {}

\* C24 witness: a header with the first column in its second and third cell
\* was checked, and the order violation has an entry for each of the two,
\* both with found_should_be_at 1.
C24_Witness ==
    /\ AllRecognizedRow
    /\ SchemaIndexAt(2) = 0
    /\ SchemaIndexAt(3) = 0
    /\ order_result.details.type = "order"
    /\ \E k1 \in EntriesAt(2), k2 \in EntriesAt(3) :
          /\ order_result.details.details[k1].found_should_be_at = 1
          /\ order_result.details.details[k2].found_should_be_at = 1

-----------------------------------------------------------------------------
(* Claims about a header with 'Makespan' twice and no 'Avg Waiting Time' *)

\* the positions of the row whose cell is the schema column with 0-based index e
PositionsOf(e) == {p \in DOMAIN given.row : SchemaIndexAt(p) = e}

\* the order check ran on 8 recognized cells, two of them 'Makespan' in some
\* style and none 'Avg Waiting Time'
MakespanTwice ==
    /\ AllRecognizedRow
    /\ Cardinality(PositionsOf(0)) = 2
    /\ PositionsOf(1) = {}

\* C25: for a header of 8 recognized cells two of which normalize to
\* 'makespan' and none to 'avg waiting time', compare_headers_order returns a
\* verdict, the same on every call: an order violation with at least one
\* entry and not an unrecognized-columns report; its entries are for cells of
\* the header, none for the schema entry the header lacks.
C25_MissingEntryNotReported ==
    MakespanTwice =>
        \A cells \in {GivenCells} :
        LET issues == order_result.details.details
        IN  /\ normalize_header(cells[CHOOSE p \in PositionsOf(0) : TRUE])
                  = <<"m", "a", "k", "e", "s", "p", "a", "n">>
            /\ \A p \in DOMAIN cells : normalize_header(cells[p]) # NORMALIZED_EXPECTED[2]
            /\ order_result = compare_headers_order(ListOf(cells), EXPECTED_HEADERS)
            /\ ~order_result.is_match
            /\ order_result.details.type = "order"
            /\ order_result.difference.kind = "Order violations"
            /\ Len(issues) >= 1
            /\ \A k \in DOMAIN issues :
                  /\ issues[k].found = cells[issues[k].position]
                  /\ issues[k].found_should_be_at # 2
            /\ \E k \in DOMAIN issues :
                  /\ issues[k].position \in PositionsOf(0)
                  /\ issues[k].found_should_be_at = 1

\* C25 witness: the order check ran on the schema with 'MAKESPAN' in place of
\* 'Avg Waiting Time' and reported one position, the second.
C25_Witness ==
    /\ MakespanTwice
    /\ given.row[1] = 0
    /\ given.row[2] = 1
    /\ order_result.details.type = "order"
    /\ Len(order_result.details.details) = 1
    /\ order_result.details.details[1].position = 2

-----------------------------------------------------------------------------
(* Claims about permuted headers *)

\* C26: for the schema with exactly two columns i and j the other way round,
\* compare_headers_order returns an order violation of exactly 2 entries that
\* refer to each other: the entry at position i has found_should_be_at j and
\* the entry at position j has found_should_be_at i. For every permutation of
\* the schema the set of the found_should_be_at values equals the set of the
\* positions reported, and a permutation other than the identity gives at
\* least 2 entries.
C26_CrossReferences ==
    (cpc = "order" /\ IsPermutationRow /\ Displaced # {}) =>
        LET issues == order_result.details.details
        IN  /\ order_result.details.type = "order"
            /\ Len(issues) >= 2
            /\ {issues[k].found_should_be_at : k \in DOMAIN issues}
                  = {issues[k].position : k \in DOMAIN issues}
            /\ Cardinality(Displaced) = 2 =>
                  /\ Len(issues) = 2
                  /\ issues[1].position < issues[2].position
                  /\ {issues[1].position, issues[2].position} = Displaced
                  /\ issues[1].found_should_be_at = issues[2].position
                  /\ issues[2].found_should_be_at = issues[1].position

\* C26 witness: the order check ran on the schema with columns 6 and 7 the
\* other way round and reported the two positions.
C26_Witness ==
    /\ cpc = "order"
    /\ IsPermutationRow
    /\ Displaced = {6, 7}
    /\ Len(order_result.details.details) = 2
    /\ order_result.details.details[1].found_should_be_at = 7

\* C26 witness for a permutation that moves three columns in a circle.
C26_WitnessCycle ==
    /\ cpc = "order"
    /\ IsPermutationRow
    /\ Displaced = {1, 2, 3}
    /\ Len(order_result.details.details) = 3

-----------------------------------------------------------------------------
(* Claims about the order of the walk *)

\* what a set of files gives whatever the order they are met in: the counts
\* by algorithm, the skipped paths, and the path, algorithm and verdict of
\* the files that do not conform
CountsOfFiles(files) ==
    [algorithm \in {Algorithms[id] : id \in files \cap AcceptedIds} |->
        Cardinality({id \in files \cap AcceptedIds : Algorithms[id] = algorithm})]

SkippedOfFiles(files) == {PathOfFile(id) : id \in files \cap RejectedIds}

FindingsOfFiles(files) ==
    {<<PathOfFile(id), Algorithms[id], VerdictOf(id).difference>> :
        id \in {f \in files \cap AcceptedIds : ~VerdictOf(f).is_match}}

\* the path, algorithm and verdict of the records of a list
FindingsOf(records) ==
    {<<records[j].filepath, records[j].algorithm, records[j].difference>> :
        j \in DOMAIN records}

\* the files of the tree that lie under the directory of a section
FilesUnder(section) == {id \in tree : SectionOf(id) = section}

\* C27: the counts and the set of records of scan_directory do not depend on
\* the order of the walk: at every moment of a walk, and when it has
\* returned, the counts by algorithm, the set of skipped paths and the set of
\* (path, algorithm, verdict) of the records are what the set of the files
\* met gives, each file by its own name, directory and first row.
C27_OrderIndependent ==
    /\ mpc \in Sections =>
        \A files \in {Range(walked)} :
            /\ file_counts = CountsOfFiles(files)
            /\ Range(skipped_files) = SkippedOfFiles(files)
            /\ FindingsOf(violations) = FindingsOfFiles(files)
            /\ Len(violations) = Cardinality(FindingsOfFiles(files))
            /\ Len(skipped_files) = Cardinality(SkippedOfFiles(files))
    /\ \A section \in Sections :
        \A j \in DOMAIN all_results :
            all_results[j].section = SectionTitle(section) =>
                \A files \in {FilesUnder(section)} :
                    /\ all_results[j].file_counts = CountsOfFiles(files)
                    /\ Range(all_results[j].skipped) = SkippedOfFiles(files)
                    /\ FindingsOf(all_results[j].violations) = FindingsOfFiles(files)

\* C27 witness: a scan has returned from a tree of three files of one
\* directory, met in another order than the catalog lists them, with two
\* records.
C27_Witness ==
    /\ mpc = "between"
    /\ tree = {1, 2, 3}
    /\ walked = <<3, 1, 2>>
    /\ Len(all_results[1].violations) = 2

\* C27 witness for the same tree walked in the order of the catalog.
C27_WitnessOtherOrder ==
    /\ mpc = "between"
    /\ tree = {1, 2, 3}
    /\ walked = <<1, 2, 3>>
    /\ Len(all_results[1].violations) = 2

-----------------------------------------------------------------------------
(* The two modes side by side *)

\* either the two comparisons are applied to a reader result, or a script
\* scans a tree
ModesInit == CmpInit \/ Init
ModesNext == CmpNext \/ Next
SpecModes == ModesInit /\ [][ModesNext]_vars

\* the paths of the files of a set that each comparison finds in violation
ExactViolationPaths(files) ==
    {PathOfFile(id) :
        id \in {f \in files \cap AcceptedIds :
                    ~compare_headers(Returned[f], EXPECTED_HEADERS).is_match}}

OrderViolationPaths(files) ==
    {PathOfFile(id) :
        id \in {f \in files \cap AcceptedIds :
                    ~compare_headers_order(Returned[f], EXPECTED_HEADERS).is_match}}

\* C28: exact-match mode is stricter than order mode: on every reader result
\* (a list or a read failure) a match of compare_headers is a match of
\* compare_headers_order, and a violation of compare_headers_order of any
\* kind is a violation of compare_headers. So on one tree the paths in the
\* violation list of check_headers_order are among those of check_headers,
\* while the counts by algorithm and the skip lists of the two scripts are
\* the same.
C28_ExactStricter ==
    /\ cpc = "order" =>
        /\ exact_result.is_match => order_result.is_match
        /\ ~order_result.is_match => ~exact_result.is_match
        /\ ~order_result.is_match =>
              order_result.difference.kind \in
                  {"Read error", "Could not read headers", "Column count mismatch",
                   "Unrecognized headers", "Order violations"}
    /\ \A section \in Sections :
        \A j \in DOMAIN all_results :
            all_results[j].section = SectionTitle(section) =>
                \A files \in {FilesUnder(section)} :
                \A paths \in {{all_results[j].violations[k].filepath :
                                  k \in DOMAIN all_results[j].violations}} :
                    /\ OrderViolationPaths(files) \subseteq ExactViolationPaths(files)
                    /\ script = "check_headers" => paths = ExactViolationPaths(files)
                    /\ script = "check_headers_order" => paths = OrderViolationPaths(files)
                    /\ all_results[j].file_counts = CountsOfFiles(files)
                    /\ Range(all_results[j].skipped) = SkippedOfFiles(files)
                    /\ Len(all_results[j].skipped) = Cardinality(SkippedOfFiles(files))

\* C28 witness: on a header with the schema columns in place, one of them in
\* other letter case, the order check reports a match and the exact check a
\* violation.
C28_Witness ==
    /\ cpc = "order"
    /\ given.tag = "list"
    /\ IsPermutationRow
    /\ Displaced = {}
    /\ order_result.is_match
    /\ ~exact_result.is_match

\* C28 witness for the scans: check_headers_order has scanned a tree with a
\* file it accepts and check_headers does not, and has fewer records than
\* there are files check_headers finds in violation.
C28_WitnessScan ==
    /\ script = "check_headers_order"
    /\ mpc = "between"
    /\ Len(all_results) = 1
    /\ Len(all_results[1].violations) = 1
    /\ Cardinality(ExactViolationPaths(FilesUnder("multi"))) = 2

-----------------------------------------------------------------------------
(* The three classes of the files of a walk *)

\* the files met so far whose name ends in .xlsx
XlsxOf(files) == {id \in files : EndsWith(FileCatalog[id].filename, DotXlsx)}

\* how many times a path stands in a list of paths, in a list of records
TimesIn(paths, path) == Cardinality({k \in DOMAIN paths : paths[k] = path})
RecordsFor(records, path) ==
    Cardinality({k \in DOMAIN records : records[k].filepath = path})

\* the files met so far that each algorithm's count stands for: those with
\* a name of the catalog of names, neither skipped nor of another kind
CountedOf(files) ==
    {id \in XlsxOf(files) : TimesIn(skipped_files, PathOfFile(id)) = 0}

\* C29: at every point of a walk of scan_directory each file met is in one
\* of three classes and one only. Ignored, its name not ending in .xlsx: not
\* on the skip list, not counted, never read. Skipped: once on the skip
\* list, not counted, never read. Counted: one increment of the count of one
\* algorithm. The length of the skip list and the sum of the counts add up
\* to the number of .xlsx files met, and the records are no more than the
\* sum of the counts, each with the path of a counted file, one at most for
\* a file.
C29_ThreeClasses ==
    mpc \in Sections =>
        \A files \in {Range(walked)} :
            /\ Cardinality(files) = Len(walked)
            /\ \A id \in files \ XlsxOf(files) :
                /\ TimesIn(skipped_files, PathOfFile(id)) = 0
                /\ RecordsFor(violations, PathOfFile(id)) = 0
                /\ loads[id] = 0
            /\ \A id \in XlsxOf(files) \ CountedOf(files) :
                /\ TimesIn(skipped_files, PathOfFile(id)) = 1
                /\ RecordsFor(violations, PathOfFile(id)) = 0
                /\ loads[id] = 0
                /\ ~is_valid_filename(FileCatalog[id].filename)
            /\ \A id \in CountedOf(files) :
                /\ is_valid_filename(FileCatalog[id].filename)
                /\ RecordsFor(violations, PathOfFile(id)) <= 1
                /\ extract_algorithm_name(PathOfFile(id), mpc = "multi") \in DOMAIN file_counts
            /\ \A algorithm \in DOMAIN file_counts :
                file_counts[algorithm] =
                    Cardinality({id \in CountedOf(files) :
                        extract_algorithm_name(PathOfFile(id), SectionOf(id) = "multi")
                            = algorithm})
            /\ SumValues(file_counts) = Cardinality(CountedOf(files))
            /\ Len(skipped_files) + SumValues(file_counts) = Cardinality(XlsxOf(files))
            /\ Len(violations) <= SumValues(file_counts)
            /\ \A k \in DOMAIN violations :
                \E id \in CountedOf(files) : violations[k].filepath = PathOfFile(id)

\* C29 witness: before a walk returns a file of each class has been met:
\* README.md, notes.xlsx and a file counted that left a record.
C29_Witness ==
    /\ mpc \in Sections
    /\ \E id \in Range(walked) : ~EndsWith(FileCatalog[id].filename, DotXlsx)
    /\ Len(skipped_files) = 1
    /\ SumValues(file_counts) = 1
    /\ Len(violations) = 1

-----------------------------------------------------------------------------
(* Falsy cell values *)

\* the values that are not None and count as false: 0, False and ""
FalsyValues == {IntCell(0), BoolCell(FALSE), StrCell(<<>>)}

\* a text with no whitespace at either end
IsStripped(text) ==
    text = <<>> \/ (~IsSpace(text[1]) /\ ~IsSpace(text[Len(text)]))

\* C30: get_header_from_xlsx reads a cell of the first row as the empty
\* string when its value is None and also when it is 0, False or the empty
\* string; every other value is read as str(value).strip(). So a row whose
\* last cell holds 0 comes back without that cell, and every element of the
\* list handed to the comparison has no whitespace at either end.
C30_FalsyReadAsEmpty ==
    HasRead =>
        /\ Len(read_result.cells) <= Len(sheet_row)
        /\ \A p \in DOMAIN read_result.cells :
            /\ sheet_row[p] = NoneCell => read_result.cells[p] = <<>>
            /\ sheet_row[p] \in FalsyValues => read_result.cells[p] = <<>>
            /\ sheet_row[p] \notin FalsyValues \cup {NoneCell} =>
                  read_result.cells[p] = Strip(Str(sheet_row[p]))
            /\ IsStripped(read_result.cells[p])
        /\ \A p \in DOMAIN sheet_row :
            p > Len(read_result.cells) =>
                \/ sheet_row[p] \in FalsyValues \cup {NoneCell}
                \/ Strip(Str(sheet_row[p])) = <<>>
        /\ sheet_row # <<>> =>
              (sheet_row[Len(sheet_row)] \in FalsyValues =>
                  Len(read_result.cells) < Len(sheet_row))

\* C30 witness: the 8 names of the schema followed by a cell that holds 0
\* have been read and gave the 8 names.
C30_Witness ==
    /\ HasRead
    /\ StartsWithSchema(sheet_row)
    /\ Len(sheet_row) = Len(EXPECTED_HEADERS) + 1
    /\ sheet_row[Len(sheet_row)] = IntCell(0)
    /\ read_result.cells = EXPECTED_HEADERS

\* C30 witness: a False between two names and a padded text have been read
\* as an empty string in place and as the text without its padding.
C30_WitnessInterior ==
    /\ HasRead
    /\ Len(sheet_row) = Len(EXPECTED_HEADERS) + 1
    /\ sheet_row[Len(EXPECTED_HEADERS) - 1] = BoolCell(FALSE)
    /\ sheet_row[Len(EXPECTED_HEADERS)] = StrCell(<<" ", "a", "\t">>)
    /\ sheet_row[Len(sheet_row)] = IntCell(7)
    /\ read_result.cells[Len(EXPECTED_HEADERS) - 1] = <<>>
    /\ read_result.cells[Len(EXPECTED_HEADERS)] = <<"a">>
    /\ Len(read_result.cells) = Len(sheet_row)

=============================================================================
